---- MODULE Spec2Model ----
(***************************************************************************)
(* Model of the webrecorder/autobrowser page behaviors: the outlink        *)
(* collector shared by every behavior and the step-driven feed traversal   *)
(* (async generator + window.$WRIteratorHandler$).                         *)
(*                                                                         *)
(* Strings are sequences of chunks (a chunk is a run of characters that    *)
(* the code never splits): " " is white space, a chunk ending in ":" is a  *)
(* URL scheme with its colon, "//a.com" is an authority.                   *)
(***************************************************************************)
EXTENDS Integers, Sequences, FiniteSets, TLC

VARIABLES
  \* ---- link collector (part_000 OutLinkCollector, part_002 addOutLinks)
  collector,    \* "class": OutLinkCollector; "fn": shouldIgnoreLink/addOutLinks
  outlinks,     \* the Set of collected hrefs
  urlParser,    \* protocol of the shared URL object (new URL('about:blank'))
  anchors,      \* hrefs of the a[href], area[href] elements a query returns
  linkOp,       \* the last link operation that ran
  before        \* the Set as it was when that operation started

VARIABLES
  \* ---- the page
  variant,      \* which behavior is injected: "newsFeed", "userFeed", "pins"
  status,       \* per node: "absent", "shown", "hidden" (offsetTop 0), "detached"
  marked,       \* nodes whose classList holds 'wrvistited'
  reactKey,     \* per node: key of its __reactInternalInstance, 0 if it has none
  gridShape,    \* pins: what getGridContainer and its react lookup meet
  layout,       \* window.innerHeight and the five extent measurements
  scrollY,      \* window.scrollY
  annoying,     \* the element #pagelet_growth_expanding_cta is in the document
  \* ---- the async generator bound to window.$WR...Iterator$
  pc,           \* where the generator is suspended
  feedItems,    \* feedItems / timelineItems / currentPostRows still to visit
  cur,          \* feedItem / tlItem / pin being visited, 0 for undefined
  rtrI,         \* clickRepliesToReplies: i
  rtrLen,       \* clickRepliesToReplies: length
  seenPins,     \* iteratePins: seenPins
  pinPhase,     \* iteratePins: 1 in the first do-while, 2 in the second
  \* ---- window.$WRIteratorHandler$
  call,         \* "idle", or "pending" while a call awaits next()
  lastDone,     \* outcome of the last call: "none", "false", "true", "error"
  removedAnnoying,
  \* ---- observations of a run
  stepsInCall,  \* steps yielded since the current (or last) call started
  yieldCount,   \* per node: times it was yielded as a candidate's step
  callsLessSteps, \* calls made while the run was not over, less steps yielded
  nWaits,       \* load-wait delays started
  lateFound,    \* candidates returned by the re-query after the last load wait
  lateScroll,   \* canScrollMore() as evaluated right after that re-query
  visitDetached,\* the candidate being visited was detached when it was popped
  mismatchSeen, \* a lookup ran on a DOM without the expected shape
  nErrors       \* calls that were rejected with an error

VARIABLES
  \* ---- globals the driver sets in the page
  stopFlag,     \* window.$WBBehaviorPaused has been set to true
  noOutlinks,   \* window.$WBNOOUTLINKS has been set to true
  wrStop        \* window.$WRSTP$ has been set to a truthy value

VARIABLES
  \* ---- MutationStream (facebookFeed.js) and the generator it hands out
  ms,           \* the object: mo (observer connected), _loopStream, _resolve
  itr,          \* the generator: "none", "start", "await", "yield", "done"
  itrKind,      \* "stream" (streamItr) or "predicate" (predicateStreamItr)
  checkTo,      \* the setInterval of the current wait is active
  startPredicate, \* what startPredicate() returns now
  stopPredicate,  \* what stopPredicate() returns now
  \* ---- observations of one stream
  endedBy,      \* how the sequence ended
  nDisconnect,  \* calls of disconnect() since the stream was made
  nEmitted,     \* mutation batches yielded
  nPolls,       \* calls of stopPredicate()
  waiterNulls   \* times the resolver of the last waiter was called with null

VARIABLES
  \* ---- what the last evaluation of canScrollMore() returned
  lastCanScroll \* asked; five: the five-extent variants; two: twitterTimeline.js

VARIABLES
  \* ---- the document as the scroll helpers and the style injection meet it
  offsetTop,    \* per node: elem.offsetTop
  lastScroll,   \* the last scroll helper that ran and the DOM calls it made
  styles,       \* textContent of the elements with id $wrStyle$, in document order
  lastStyle     \* the last style injection that ran, and styles before it

VARIABLES
  \* ---- a driver that calls the handler while a call is pending, or after
  \*      the run is over
  queued,       \* next() requests waiting in the queue of the generator
  fromQueue,    \* the last resumption of the generator served a queued request
  lateCalls     \* calls made after a call had resolved done = true

VARIABLES
  \* ---- observations of the helpers that run beside a traversal
  nDropped,     \* batches the observer callback delivered while no wait was pending
  openFor,      \* the tweet whose permalink path ends document.baseURI, 0 for none
  childWait,    \* one waitForAdditionalElemChildren call and what its parent looks like
  wbGlobals,    \* window.$wbOutlinkSet$ and window.$wbOutlinks$ as the setups of the behaviors left them
  scroller      \* the interval of the autoscroll behavior and the page it scrolls

linkVars == <<collector, outlinks, urlParser, anchors, linkOp, before>>
pageVars == <<variant, status, reactKey, gridShape, layout, annoying>>
genVars  == <<pc, feedItems, cur, rtrI, rtrLen, seenPins, pinPhase, marked>>
callVars == <<call, lastDone, removedAnnoying>>
obsVars  == <<stepsInCall, yieldCount, callsLessSteps, nWaits, lateFound,
              lateScroll, visitDetached, mismatchSeen, nErrors>>
scrollVars == <<scrollY>>
flagVars == <<stopFlag, noOutlinks, wrStop>>
streamVars == <<ms, itr, itrKind, checkTo, startPredicate, stopPredicate,
                endedBy, nDisconnect, nEmitted, nPolls, waiterNulls>>
probeVars == <<lastCanScroll>>
domVars == <<offsetTop, lastScroll, styles, lastStyle>>
reentryVars == <<queued, fromQueue, lateCalls>>
helperVars == <<nDropped, openFor, childWait, wbGlobals, scroller>>
engineVars == <<pageVars, genVars, callVars, obsVars, scrollVars, flagVars,
                streamVars, probeVars, domVars, reentryVars, helperVars>>

vars == <<linkVars, engineVars>>

----------------------------------------------------------------------------
\* Bounds
MaxHrefs == 4
MaxNodes == 2
MaxRtr == 1
MaxKeys == 2

----------------------------------------------------------------------------
\* Strings and the URL parser

WhiteSpace == {" "}

RECURSIVE TrimStart(_)
TrimStart(s) ==
  IF s # <<>> /\ Head(s) \in WhiteSpace THEN TrimStart(Tail(s)) ELSE s

RECURSIVE TrimEnd(_)
TrimEnd(s) ==
  IF s # <<>> /\ s[Len(s)] \in WhiteSpace
    THEN TrimEnd(SubSeq(s, 1, Len(s) - 1))
    ELSE s

\* String.prototype.trim
Trim(s) == TrimEnd(TrimStart(s))

\* String.prototype.startsWith for a one-chunk prefix
StartsWith(s, prefix) == s # <<>> /\ Head(s) = prefix

\* the scheme chunks the URL parser recognises, with their lower-cased protocol
SchemeOf(chunk) ==
  CASE chunk \in {"https:", "HTTPS:"} -> "https:"
    [] chunk \in {"http:", "HTTP:"}   -> "http:"
    [] chunk = "ftp:"                 -> "ftp:"
    [] chunk = "javascript:"          -> "javascript:"
    [] chunk = "mailto:"              -> "mailto:"
    [] chunk = "about:"               -> "about:"
    [] OTHER                          -> "none"

SpecialSchemes == {"https:", "http:", "ftp:"}
Authorities == {"//a.com", "//b.org"}

\* The URL parser behind `url.href = test`: the protocol of the parsed URL, or
\* "fail" where the setter throws a TypeError.  The parser strips leading and
\* trailing white space itself; a string without a scheme has no base to
\* resolve against; a special scheme needs a host, and white space in the
\* host is a failure.
UrlParse(s) ==
  LET t == TrimEnd(TrimStart(s)) IN
  IF t = <<>> THEN "fail"
  ELSE LET proto == SchemeOf(Head(t)) IN
    IF proto = "none" THEN "fail"
    ELSE IF proto \in SpecialSchemes
      THEN IF Len(t) >= 2 /\ t[2] \in Authorities
                /\ \A i \in 2..Len(t) : t[i] \notin WhiteSpace
             THEN proto ELSE "fail"
      ELSE proto

----------------------------------------------------------------------------
\* The link filter

\* this.ignored of OutLinkCollector
ignored == <<"about:", "data:", "mailto:", "javascript:", "js:", "{", "*",
             "ftp:", "tel:">>

\* this.good / goodSchemes
good == {"http:", "https:"}

\* The prefix loop `let i = list.length; while (i--) ...`.  In the class the
\* list is this.ignored; in the function variant `ignored` is the local
\* boolean false, whose length is undefined, so the loop body never runs.
IgnoredByPrefix(col, test) ==
  IF col = "class"
    THEN \E i \in 1..Len(ignored) : StartsWith(test, ignored[i])
    ELSE FALSE

\* shouldIgnore / shouldIgnoreLink: the verdict and the parser's protocol after
ShouldIgnoreNoParsedFlag(col, test, proto) ==
  IF IgnoredByPrefix(col, test)
    THEN [ignore |-> TRUE, proto |-> proto]
    ELSE LET p    == UrlParse(test)
             now  == IF p = "fail" THEN proto ELSE p
         IN [ignore |-> ~(now \in good), proto |-> now]

shouldIgnore(col, test, proto) ==
  IF IgnoredByPrefix(col, test)
    THEN [ignore |-> TRUE, proto |-> proto]
    ELSE LET p      == UrlParse(test)
             parsed == p # "fail"
             now    == IF parsed THEN p ELSE proto
         IN [ignore |-> ~(parsed /\ now \in good), proto |-> now]

\* the body of the loop of addOutLinks, and addOutlink after its `.href ||`
AddHrefUntrimmed(col, st, raw) ==
  LET href == raw IN
  IF href # <<>> /\ href \notin st.outlinks
    THEN LET r == shouldIgnore(col, href, st.proto) IN
         [outlinks |-> IF r.ignore THEN st.outlinks ELSE st.outlinks \cup {href},
          proto    |-> r.proto]
    ELSE st

AddHref(col, st, raw) ==
  LET href == Trim(raw) IN
  IF href # <<>> /\ href \notin st.outlinks
    THEN LET r == shouldIgnore(col, href, st.proto) IN
         [outlinks |-> IF r.ignore THEN st.outlinks ELSE st.outlinks \cup {href},
          proto    |-> r.proto]
    ELSE st

\* addOutLinks: `let i = toAdd.length; while (i--)`, last element first
RECURSIVE addOutLinks(_, _, _)
addOutLinks(col, st, toAdd) ==
  IF toAdd = <<>> THEN st
  ELSE addOutLinks(col, AddHref(col, st, toAdd[Len(toAdd)]),
                   SubSeq(toAdd, 1, Len(toAdd) - 1))

----------------------------------------------------------------------------
\* The link collector driven directly: the page owns the anchors, the
\* behavior (or the driver) runs the collector's operations.

HrefA  == <<"https:", "//a.com">>
HrefA2 == <<" ", "https:", "//a.com", " ">>
HrefJ  == <<"javascript:", "void(0)">>
HrefN  == <<"not a url">>
HrefB  == <<"HTTP:", "//b.org">>
HrefE  == <<" ">>
HrefF  == <<"ftp:", "//a.com">>

HrefPool == {HrefA, HrefA2, HrefJ, HrefN, HrefB, HrefE, HrefF}

LinkState == [outlinks |-> outlinks, proto |-> urlParser]

Nodes == 1..MaxNodes

\* new MutationStream(): no observer connected, no generator handed out
StreamIdle ==
  /\ ms = [mo |-> FALSE, loopStream |-> FALSE, resolve |-> "null"]
  /\ itr = "none"
  /\ itrKind = "stream"
  /\ checkTo = FALSE
  /\ startPredicate = FALSE
  /\ stopPredicate = FALSE
  /\ endedBy = "none"
  /\ nDisconnect = 0
  /\ nEmitted = 0
  /\ nPolls = 0
  /\ waiterNulls = 0

NoScroll == [fn |-> "none"]

NoStyle == [op |-> "none"]

\* a page no behavior was injected into: neither global is defined
NoGlobals == [set |-> 0, made |-> 0, getter |-> "undefined", runs |-> 0]

\* the autoscroll behavior has not started
NoScroller == [phase |-> "none"]

\* no call of waitForAdditionalElemChildren was made
NoChildWait == [phase |-> "none"]

\* no helper has run
HelperIdle ==
  /\ nDropped = 0
  /\ openFor = 0
  /\ childWait = NoChildWait
  /\ wbGlobals = NoGlobals
  /\ scroller = NoScroller

\* a document no helper has touched: every node at offsetTop 0, no style
DomIdle ==
  /\ offsetTop = [n \in Nodes |-> 0]
  /\ lastScroll = NoScroll
  /\ styles = <<>>
  /\ lastStyle = NoStyle

\* no behavior is running: the collector is driven on its own
EngineIdle ==
  /\ variant = "none"
  /\ status = [n \in Nodes |-> "absent"]
  /\ marked = {}
  /\ reactKey = [n \in Nodes |-> 0]
  /\ gridShape = "ok"
  /\ layout = [innerHeight |-> 0, bodyScrollHeight |-> 0, bodyOffsetHeight |-> 0,
               docClientHeight |-> 0, docScrollHeight |-> 0, docOffsetHeight |-> 0]
  /\ scrollY = 0
  /\ annoying = FALSE
  /\ pc = "completed"
  /\ feedItems = <<>>
  /\ cur = 0
  /\ rtrI = 0
  /\ rtrLen = 0
  /\ seenPins = {}
  /\ pinPhase = 1
  /\ call = "idle"
  /\ lastDone = "none"
  /\ removedAnnoying = FALSE
  /\ stepsInCall = 0
  /\ yieldCount = [n \in Nodes |-> 0]
  /\ callsLessSteps = 0
  /\ nWaits = 0
  /\ lateFound = {}
  /\ lateScroll = FALSE
  /\ visitDetached = FALSE
  /\ mismatchSeen = FALSE
  /\ nErrors = 0
  /\ stopFlag = FALSE
  /\ noOutlinks = FALSE
  /\ wrStop = FALSE
  /\ StreamIdle
  /\ lastCanScroll = [asked |-> FALSE]
  /\ DomIdle
  /\ queued = 0
  /\ fromQueue = FALSE
  /\ lateCalls = 0
  /\ HelperIdle

LinkInit ==
  /\ collector \in {"class", "fn"}
  /\ outlinks = {}
  /\ urlParser = "about:"
  /\ anchors = <<>>
  /\ linkOp = "none"
  /\ before = {}
  /\ EngineIdle

\* the page adds an anchor or area element with an href
PageAddAnchor ==
  /\ Len(anchors) < MaxHrefs
  /\ \E h \in HrefPool : anchors' = Append(anchors, h)
  /\ linkOp' = "page"
  /\ before' = outlinks
  /\ UNCHANGED <<collector, outlinks, urlParser, engineVars>>

\* the page drops its anchors (navigation inside the page, re-render)
PageDropAnchors ==
  /\ anchors # <<>>
  /\ anchors' = <<>>
  /\ linkOp' = "page"
  /\ before' = outlinks
  /\ UNCHANGED <<collector, outlinks, urlParser, engineVars>>

\* collectFrom(queryFrom) / collectFromDoc() / collectOutlinksFrom(queryFrom)
CollectFrom ==
  /\ LET st == addOutLinks(collector, LinkState, anchors) IN
       /\ outlinks' = st.outlinks
       /\ urlParser' = st.proto
  /\ linkOp' = "collectFrom"
  /\ before' = outlinks
  /\ UNCHANGED <<collector, anchors, engineVars>>

\* addOutlink(elemOrString), class variant only
AddOutlink ==
  /\ collector = "class"
  /\ anchors # <<>>
  /\ LET st == AddHref(collector, LinkState, anchors[Len(anchors)]) IN
       /\ outlinks' = st.outlinks
       /\ urlParser' = st.proto
  /\ linkOp' = "addOutlink"
  /\ before' = outlinks
  /\ UNCHANGED <<collector, anchors, engineVars>>

\* window.$wbOutlinkSet$.clear(), function variant (part_002:187-194)
ClearOutlinks ==
  /\ collector = "fn"
  /\ outlinks # {}
  /\ outlinks' = {}
  /\ linkOp' = "clear"
  /\ before' = outlinks
  /\ UNCHANGED <<collector, urlParser, anchors, engineVars>>

LinkNext ==
  \/ PageAddAnchor
  \/ PageDropAnchors
  \/ CollectFrom
  \/ AddOutlink
  \/ ClearOutlinks

----------------------------------------------------------------------------
\* The page as the behaviors see it

Attached(n) == status[n] \in {"shown", "hidden"}

\* elem.offsetTop === 0: a node without layout (hidden, or not in the document)
OffsetTopIsZero(n) == status[n] # "shown"

\* an ascending sequence of the nodes of S: document order
RECURSIVE Ordered(_)
Ordered(S) ==
  IF S = {} THEN <<>>
  ELSE LET m == CHOOSE x \in S : \A y \in S : x <= y
       IN <<m>> \o Ordered(S \ {m})

Max2(a, b) == IF a >= b THEN a ELSE b

ScrollYs == {0, 1}

Layouts ==
  { [innerHeight |-> 1, bodyScrollHeight |-> 1, bodyOffsetHeight |-> 1,
     docClientHeight |-> 1, docScrollHeight |-> 1, docOffsetHeight |-> 1],
    [innerHeight |-> 1, bodyScrollHeight |-> 1, bodyOffsetHeight |-> 1,
     docClientHeight |-> 1, docScrollHeight |-> 2, docOffsetHeight |-> 1] }

canScrollMoreOrEqual ==
  scrollY + layout.innerHeight <=
    Max2(layout.bodyScrollHeight,
      Max2(layout.bodyOffsetHeight,
        Max2(layout.docClientHeight,
          Max2(layout.docScrollHeight, layout.docOffsetHeight))))

canScrollMore ==
  scrollY + layout.innerHeight <
    Max2(layout.bodyScrollHeight,
      Max2(layout.bodyOffsetHeight,
        Max2(layout.docClientHeight,
          Max2(layout.docScrollHeight, layout.docOffsetHeight))))

\* the hrefs of the anchors below a node
NodeHrefs(n) ==
  IF n % 2 = 1 THEN <<HrefA, HrefJ>> ELSE <<HrefA2, HrefB, HrefN>>

\* xpathG(feedItemSelector).filter(newsFeedItemFilter) in the news feed,
\* xpathGenerator(userTimelineSelector) in the user timeline
FeedQueryIgnoringMarker ==
  Ordered({n \in Nodes :
    /\ Attached(n)
    /\ variant = "newsFeed" => ~OffsetTopIsZero(n)})

FeedQueryIncludingHidden ==
  Ordered({n \in Nodes :
    /\ Attached(n)
    /\ n \notin marked})

FeedQuery ==
  Ordered({n \in Nodes :
    /\ Attached(n)
    /\ n \notin marked
    /\ variant = "newsFeed" => ~OffsetTopIsZero(n)})

SeqToSet(q) == {q[i] : i \in 1..Len(q)}

----------------------------------------------------------------------------
\* Pieces of the feed generators (facebookNewsFeed.js and part_002
\* makeIterator).  Each piece tells where the generator stops next and what
\* the pending handler call gets.

Bump(f, n) == [f EXCEPT ![n] = IF @ < 2 THEN @ + 1 ELSE @]

\* scrollToElemOffset (news feed) / scrollIntoView (user timeline) on node n.
\* Where the window ends up depends on the layout: any position.
EngineScroll(n) ==
  IF status[n] = "detached"
    THEN scrollY' = scrollY
    ELSE scrollY' \in ScrollYs

FeedStartVisitDropsRest(items) ==
  /\ cur' = Head(items)
  /\ feedItems' = <<>>
  /\ visitDetached' = (status[Head(items)] = "detached")
  /\ EngineScroll(Head(items))
  /\ pc' = "scrollDelay"
  /\ call' = "pending"
  /\ UNCHANGED <<lastDone, nWaits, rtrI, rtrLen>>

\* feedItem = feedItems.shift(); await scroll...WithDelay(feedItem, delay)
FeedStartVisit(items) ==
  /\ cur' = Head(items)
  /\ feedItems' = Tail(items)
  /\ visitDetached' = (status[Head(items)] = "detached")
  /\ EngineScroll(Head(items))
  /\ pc' = "scrollDelay"
  /\ call' = "pending"
  /\ UNCHANGED <<lastDone, nWaits, rtrI, rtrLen>>

\* await delay() (news feed) / await scrollDownByElemHeightWithDelay(tlItem,
\* loadDelayTime) (user timeline), entered with an empty re-query
FeedStartLoadWait ==
  /\ feedItems' = <<>>
  /\ pc' = "loadDelay"
  /\ nWaits' = nWaits + 1
  /\ call' = "pending"
  /\ IF variant = "userFeed" /\ cur # 0 /\ status[cur] # "detached"
       THEN scrollY' \in {y \in ScrollYs : y >= scrollY}
       ELSE UNCHANGED scrollVars
  /\ UNCHANGED <<cur, visitDetached, lastDone, rtrI, rtrLen>>

FeedCompleteStaysSuspended(items) ==
  /\ feedItems' = items
  /\ pc' = "yieldItem"
  /\ call' = "idle"
  /\ lastDone' = "true"
  /\ UNCHANGED <<cur, visitDetached, nWaits, rtrI, rtrLen, scrollVars>>

FeedCompleteAsStep(items) ==
  /\ feedItems' = items
  /\ pc' = "completed"
  /\ call' = "idle"
  /\ lastDone' = "false"
  /\ UNCHANGED <<cur, visitDetached, nWaits, rtrI, rtrLen, scrollVars>>

\* the generator returns: next() resolves {done: true}
FeedComplete(items) ==
  /\ feedItems' = items
  /\ pc' = "completed"
  /\ call' = "idle"
  /\ lastDone' = "true"
  /\ UNCHANGED <<cur, visitDetached, nWaits, rtrI, rtrLen, scrollVars>>

FeedLoopTestStopsEarly(items) == FeedComplete(items)

FeedLoopTestIgnoringScroll(items) ==
  IF items # <<>>
    THEN FeedStartVisit(items)
    ELSE FeedComplete(items)

\* } while (feedItems.length > 0 && canScrollMore());
FeedLoopTest(items) ==
  IF items # <<>> /\ canScrollMore
    THEN FeedStartVisit(items)
    ELSE FeedComplete(items)

\* while (feedItems.length > 0) {...}  feedItems = getFeedItems(...);
\* if (feedItems.length === 0) {...}
FeedInnerLoop(items) ==
  IF items # <<>>
    THEN FeedStartVisit(items)
    ELSE IF FeedQuery = <<>>
      THEN FeedStartLoadWait
      ELSE FeedLoopTest(FeedQuery)

\* a detail step of the user timeline starts: scrollIntoViewAndClickWithDelay
UserStartDetail(where, i, len) ==
  /\ pc' = where
  /\ rtrI' = i
  /\ rtrLen' = len
  /\ scrollY' \in ScrollYs
  /\ call' = "pending"
  /\ UNCHANGED <<feedItems, cur, visitDetached, lastDone, nWaits>>

\* clickRepliesToReplies, second query: rToR = tlItem.querySelectorAll(...)
UserSecondRtr ==
  \E len \in 0..MaxRtr :
    IF len > 0
      THEN UserStartDetail("rtrDelay2", 0, len)
      ELSE FeedInnerLoop(feedItems)

\* clickRepliesToReplies, first query
UserFirstRtr ==
  \E len \in 0..MaxRtr :
    IF len > 0
      THEN UserStartDetail("rtrDelay1", 0, len)
      ELSE UserSecondRtr

\* replies = tlItem.querySelector(moreReplies); if (replies) {...}
UserAfterItem ==
  \E replies \in BOOLEAN :
    IF replies
      THEN UserStartDetail("repliesDelay", rtrI, rtrLen)
      ELSE UserFirstRtr

\* the generator resumed by next() from where it is suspended
FeedResume ==
  CASE pc = "start" -> FeedInnerLoop(FeedQuery)
    [] pc = "yieldItem" ->
         IF variant = "userFeed" THEN UserAfterItem ELSE FeedInnerLoop(feedItems)
    [] pc = "yieldReplies" -> UserFirstRtr
    [] pc = "yieldRtr1" ->
         IF rtrI + 1 < rtrLen
           THEN UserStartDetail("rtrDelay1", rtrI + 1, rtrLen)
           ELSE UserSecondRtr
    [] pc = "yieldRtr2" ->
         IF rtrI + 1 < rtrLen
           THEN UserStartDetail("rtrDelay2", rtrI + 1, rtrLen)
           ELSE FeedInnerLoop(feedItems)
    [] pc = "completed" ->
         /\ call' = "idle"
         /\ lastDone' = "true"
         /\ UNCHANGED <<pc, feedItems, cur, visitDetached, nWaits, rtrI, rtrLen,
                        scrollVars>>

Suspended == pc \in {"start", "yieldItem", "yieldReplies", "yieldRtr1",
                     "yieldRtr2", "completed"}

\* maybeRemoveElemById(removeAnnoyingElemId) in the handler
HandlerRemoveAnnoying ==
  IF ~removedAnnoying /\ annoying
    THEN annoying' = FALSE /\ removedAnnoying' = TRUE
    ELSE UNCHANGED <<annoying, removedAnnoying>>

\* window.$WRIteratorHandler$() of the feed behaviors, up to the first await
\* that needs a timer
FeedAdvance ==
  /\ variant \in {"newsFeed", "userFeed"}
  /\ call = "idle"
  /\ Suspended
  /\ HandlerRemoveAnnoying
  /\ stepsInCall' = 0
  /\ callsLessSteps' = IF pc = "completed" THEN callsLessSteps
                                             ELSE callsLessSteps + 1
  /\ FeedResume
  /\ UNCHANGED <<variant, status, reactKey, gridShape, layout, marked, seenPins,
                 pinPhase, yieldCount, lateFound, lateScroll,
                 mismatchSeen, nErrors, linkVars>>
  /\ UNCHANGED <<flagVars, streamVars, probeVars, domVars, reentryVars, helperVars>>

\* markElemAsVisited
markElemAsVisitedNoop(elem) == marked' = marked

markElemAsVisited(elem) == marked' = marked \cup {elem}

CollectOutlinksFromFreshSet(n) ==
  /\ LET st == addOutLinks(collector, [outlinks |-> {}, proto |-> urlParser],
                           NodeHrefs(n)) IN
       /\ outlinks' = st.outlinks
       /\ urlParser' = st.proto
  /\ UNCHANGED <<collector, anchors, linkOp, before>>

\* collectOutlinksFrom(node)
CollectOutlinksFrom(n) ==
  /\ LET st == addOutLinks(collector, LinkState, NodeHrefs(n)) IN
       /\ outlinks' = st.outlinks
       /\ urlParser' = st.proto
  /\ UNCHANGED <<collector, anchors, linkOp, before>>

\* the generator yields a step: the pending next() resolves {done: false}
YieldStep ==
  /\ call' = "idle"
  /\ lastDone' = "false"
  /\ stepsInCall' = stepsInCall + 1
  /\ callsLessSteps' = callsLessSteps - 1

\* the settle delay of a visit elapses: mark, collect, yield feedItem
FeedScrollDelayElapsed ==
  /\ variant \in {"newsFeed", "userFeed"}
  /\ pc = "scrollDelay"
  /\ markElemAsVisited(cur)
  /\ CollectOutlinksFrom(cur)
  /\ pc' = "yieldItem"
  /\ yieldCount' = Bump(yieldCount, cur)
  /\ YieldStep
  /\ UNCHANGED <<pageVars, feedItems, cur, rtrI, rtrLen, seenPins, pinPhase,
                 removedAnnoying, nWaits, lateFound, lateScroll,
                 visitDetached, mismatchSeen, nErrors, scrollVars>>
  /\ UNCHANGED <<flagVars, streamVars, probeVars, domVars, reentryVars, helperVars>>

\* the delay of a detail click elapses: yield replies / yield rtr / yield rToR
UserDetailDelayElapsed ==
  /\ variant = "userFeed"
  /\ pc \in {"repliesDelay", "rtrDelay1", "rtrDelay2"}
  /\ pc' = CASE pc = "repliesDelay" -> "yieldReplies"
             [] pc = "rtrDelay1"    -> "yieldRtr1"
             [] pc = "rtrDelay2"    -> "yieldRtr2"
  /\ YieldStep
  /\ UNCHANGED <<pageVars, feedItems, cur, rtrI, rtrLen, seenPins, pinPhase,
                 marked, removedAnnoying, yieldCount, nWaits, lateFound,
                 lateScroll, visitDetached, mismatchSeen, nErrors, scrollVars,
                 linkVars>>
  /\ UNCHANGED <<flagVars, streamVars, probeVars, domVars, reentryVars, helperVars>>

\* the load wait elapses: feedItems = getFeedItems(...), then the loop test
FeedLoadDelayElapsed ==
  /\ variant \in {"newsFeed", "userFeed"}
  /\ pc = "loadDelay"
  /\ lateFound' = SeqToSet(FeedQuery)
  /\ lateScroll' = canScrollMore
  /\ FeedLoopTest(FeedQuery)
  /\ UNCHANGED <<pageVars, seenPins, pinPhase, marked, removedAnnoying,
                 stepsInCall, yieldCount, callsLessSteps, mismatchSeen,
                 nErrors, linkVars>>
  /\ UNCHANGED <<flagVars, streamVars, probeVars, domVars, reentryVars, helperVars>>

----------------------------------------------------------------------------
\* The pin grid traversal (pinterest.js iteratePins / consumePins)

HasInternalKey(n) == reactKey[n] # 0

\* pinContainerR.stateNode.childNodes
PinsChildren == Ordered({n \in Nodes : Attached(n)})

\* reactInstancesFromElements(elems, keySelector): reactInstanceFromDOMElem
\* throws on the first element without an internal key; keySelector selects
\* the keys not in seenPins and adds them
RECURSIVE ReactInstancesSkippingKeyless(_, _)
ReactInstancesSkippingKeyless(elems, seen) ==
  IF elems = <<>> THEN [threw |-> FALSE, rows |-> <<>>, seen |-> seen]
  ELSE LET n == Head(elems) IN
    IF ~HasInternalKey(n) THEN ReactInstancesSkippingKeyless(Tail(elems), seen)
    ELSE LET rest == ReactInstancesSkippingKeyless(Tail(elems),
                                                   seen \cup {reactKey[n]})
         IN [threw |-> rest.threw,
             rows  |-> IF reactKey[n] \notin seen
                         THEN <<n>> \o rest.rows ELSE rest.rows,
             seen  |-> rest.seen]

RECURSIVE ReactInstancesNotRecordingKeys(_, _)
ReactInstancesNotRecordingKeys(elems, seen) ==
  IF elems = <<>> THEN [threw |-> FALSE, rows |-> <<>>, seen |-> seen]
  ELSE LET n == Head(elems) IN
    IF ~HasInternalKey(n) THEN [threw |-> TRUE, rows |-> <<>>, seen |-> seen]
    ELSE LET rest == ReactInstancesNotRecordingKeys(Tail(elems), seen)
         IN [threw |-> rest.threw,
             rows  |-> IF reactKey[n] \notin seen
                         THEN <<n>> \o rest.rows ELSE rest.rows,
             seen  |-> rest.seen]

RECURSIVE reactInstancesFromElements(_, _)
reactInstancesFromElements(elems, seen) ==
  IF elems = <<>> THEN [threw |-> FALSE, rows |-> <<>>, seen |-> seen]
  ELSE LET n == Head(elems) IN
    IF ~HasInternalKey(n) THEN [threw |-> TRUE, rows |-> <<>>, seen |-> seen]
    ELSE LET rest == reactInstancesFromElements(Tail(elems),
                                                seen \cup {reactKey[n]})
         IN [threw |-> rest.threw,
             rows  |-> IF reactKey[n] \notin seen
                         THEN <<n>> \o rest.rows ELSE rest.rows,
             seen  |-> rest.seen]

\* getRenderedPins()
getRenderedPins(seen) == reactInstancesFromElements(PinsChildren, seen)

PinsThrowStaysSuspended ==
  /\ pc' = "yieldItem"
  /\ call' = "idle"
  /\ lastDone' = "error"
  /\ nErrors' = nErrors + 1
  /\ UNCHANGED <<feedItems, cur, seenPins, pinPhase, visitDetached, scrollVars,
                 linkVars>>

\* an exception leaves the generator: it is finished, next() rejects, and the
\* handler, which has no try/catch, rejects with it
PinsThrow ==
  /\ pc' = "completed"
  /\ call' = "idle"
  /\ lastDone' = "error"
  /\ nErrors' = nErrors + 1
  /\ UNCHANGED <<feedItems, cur, seenPins, pinPhase, visitDetached, scrollVars,
                 linkVars>>

\* consumePins: pin = renderedPins[i]; collectOutlinksFrom(pin.node);
\* await scrollIntoViewWithDelay(pin.node)
PinsStartVisit(rows, seen, phase) ==
  /\ cur' = Head(rows)
  /\ feedItems' = Tail(rows)
  /\ seenPins' = seen
  /\ pinPhase' = phase
  /\ visitDetached' = (status[Head(rows)] = "detached")
  /\ CollectOutlinksFrom(Head(rows))
  /\ EngineScroll(Head(rows))
  /\ pc' = "scrollDelay"
  /\ call' = "pending"
  /\ UNCHANGED <<lastDone, nErrors>>

PinsComplete(seen, phase) ==
  /\ pc' = "completed"
  /\ call' = "idle"
  /\ lastDone' = "true"
  /\ seenPins' = seen
  /\ pinPhase' = phase
  /\ UNCHANGED <<feedItems, cur, visitDetached, nErrors, scrollVars, linkVars>>

\* second do-while: currentPostRows = getRenderedPins();
\* } while (currentPostRows.length > 0);
PinsLastQuery(seen) ==
  LET r == getRenderedPins(seen) IN
  IF r.threw THEN PinsThrow
  ELSE IF r.rows # <<>> THEN PinsStartVisit(r.rows, r.seen, 2)
  ELSE PinsComplete(r.seen, 2)

\* if (currentPostRows.length === 0) currentPostRows = getRenderedPins();
\* then the second do-while, whose first consumePins yields nothing when
\* that query is empty
PinsSecondLoop(seen) ==
  LET r == getRenderedPins(seen) IN
  IF r.threw THEN PinsThrow
  ELSE IF r.rows # <<>> THEN PinsStartVisit(r.rows, r.seen, 2)
  ELSE PinsLastQuery(r.seen)

\* first do-while: currentPostRows = getRenderedPins();
\* } while (currentPostRows.length > 0);
PinsFirstLoopQuery(seen) ==
  LET r == getRenderedPins(seen) IN
  IF r.threw THEN PinsThrow
  ELSE IF r.rows # <<>> THEN PinsStartVisit(r.rows, r.seen, 1)
  ELSE PinsSecondLoop(r.seen)

\* the start of iteratePins: getGridContainer(), reactInstanceFromDOMElem of
\* the container, the first getRenderedPins()
PinsStart ==
  IF PinsChildren = <<>> \/ gridShape # "ok"
    THEN PinsThrow
    ELSE LET r == getRenderedPins({}) IN
      IF r.threw THEN PinsThrow
      ELSE IF r.rows # <<>> THEN PinsStartVisit(r.rows, r.seen, 1)
      ELSE PinsFirstLoopQuery(r.seen)

KeylessChild == \E n \in Nodes : Attached(n) /\ ~HasInternalKey(n)

\* window.$WRIteratorHandler$() of the pin behavior
PinsAdvance ==
  /\ variant = "pins"
  /\ call = "idle"
  /\ pc \in {"start", "yieldItem", "completed"}
  /\ stepsInCall' = 0
  /\ callsLessSteps' = IF pc = "completed" THEN callsLessSteps
                                             ELSE callsLessSteps + 1
  /\ CASE pc = "start" ->
            /\ mismatchSeen' =
                 (PinsChildren = <<>> \/ gridShape # "ok" \/ KeylessChild)
            /\ PinsStart
       [] pc = "yieldItem" ->
            IF feedItems # <<>>
              THEN /\ PinsStartVisit(feedItems, seenPins, pinPhase)
                   /\ UNCHANGED mismatchSeen
              ELSE /\ mismatchSeen' = (mismatchSeen \/ KeylessChild)
                   /\ IF pinPhase = 1
                        THEN PinsFirstLoopQuery(seenPins)
                        ELSE PinsLastQuery(seenPins)
       [] pc = "completed" ->
            /\ call' = "idle"
            /\ lastDone' = "true"
            /\ UNCHANGED <<pc, feedItems, cur, seenPins, pinPhase, visitDetached,
                           mismatchSeen, nErrors, scrollVars, linkVars>>
  /\ UNCHANGED <<pageVars, marked, rtrI, rtrLen, removedAnnoying, yieldCount,
                 nWaits, lateFound, lateScroll>>
  /\ UNCHANGED <<flagVars, streamVars, probeVars, domVars, reentryVars, helperVars>>

\* the delay of scrollIntoViewWithDelay elapses: yield pin.node
PinsScrollDelayElapsed ==
  /\ variant = "pins"
  /\ pc = "scrollDelay"
  /\ pc' = "yieldItem"
  /\ yieldCount' = Bump(yieldCount, cur)
  /\ YieldStep
  /\ UNCHANGED <<pageVars, feedItems, cur, rtrI, rtrLen, seenPins, pinPhase,
                 marked, removedAnnoying, nWaits, lateFound, lateScroll,
                 visitDetached, mismatchSeen, nErrors, scrollVars, linkVars>>
  /\ UNCHANGED <<flagVars, streamVars, probeVars, domVars, reentryVars, helperVars>>

----------------------------------------------------------------------------
\* The page's own scripts and the driver

Running == variant # "none"

\* the page inserts a node (a feed item, a timeline item, a pin)
PageInsert ==
  /\ Running
  /\ \E n \in Nodes :
       /\ status[n] = "absent"
       /\ \E st \in IF variant \in {"newsFeed", "slideFeed"}
                       THEN {"shown", "hidden"} ELSE {"shown"} :
            status' = [status EXCEPT ![n] = st]
       /\ \E k \in IF variant = "pins" THEN 0..MaxKeys ELSE {0} :
            reactKey' = [reactKey EXCEPT ![n] = k]
  /\ UNCHANGED <<variant, gridShape, layout, annoying, genVars, callVars,
                 obsVars, scrollVars, linkVars>>
  /\ UNCHANGED <<flagVars, streamVars, probeVars, domVars, reentryVars, helperVars>>

\* the page removes a node from the document
PageRemove ==
  /\ Running
  /\ \E n \in Nodes :
       /\ Attached(n)
       /\ status' = [status EXCEPT ![n] = "detached"]
  /\ UNCHANGED <<variant, reactKey, gridShape, layout, annoying, genVars,
                 callVars, obsVars, scrollVars, linkVars>>
  /\ UNCHANGED <<flagVars, streamVars, probeVars, domVars, reentryVars, helperVars>>

\* layout gives a news feed item a position, or takes it away
PageRelayout ==
  /\ variant \in {"newsFeed", "slideFeed"}
  /\ \E n \in Nodes :
       /\ Attached(n)
       /\ status' = [status EXCEPT ![n] = IF @ = "shown" THEN "hidden" ELSE "shown"]
  /\ UNCHANGED <<variant, reactKey, gridShape, layout, annoying, genVars,
                 callVars, obsVars, scrollVars, linkVars>>
  /\ UNCHANGED <<flagVars, streamVars, probeVars, domVars, reentryVars, helperVars>>

\* the virtualized grid recycles an element for another row
PageRekey ==
  /\ variant = "pins"
  /\ \E n \in Nodes, k \in 0..MaxKeys :
       /\ Attached(n)
       /\ k # reactKey[n]
       /\ reactKey' = [reactKey EXCEPT ![n] = k]
  /\ UNCHANGED <<variant, status, gridShape, layout, annoying, genVars,
                 callVars, obsVars, scrollVars, linkVars>>
  /\ UNCHANGED <<flagVars, streamVars, probeVars, domVars, reentryVars, helperVars>>

\* the document grows or shrinks
PageResize ==
  /\ Running
  /\ \E l \in Layouts : l # layout /\ layout' = l
  /\ UNCHANGED <<variant, status, reactKey, gridShape, annoying, genVars,
                 callVars, obsVars, scrollVars, linkVars>>
  /\ UNCHANGED <<flagVars, streamVars, probeVars, domVars, reentryVars, helperVars>>

\* the window is scrolled by the page or by a smooth scroll going on
PageScroll ==
  /\ Running
  /\ \E y \in ScrollYs : y # scrollY /\ scrollY' = y
  /\ UNCHANGED <<pageVars, genVars, callVars, obsVars, linkVars>>
  /\ UNCHANGED <<flagVars, streamVars, probeVars, domVars, reentryVars, helperVars>>

\* the page shows #pagelet_growth_expanding_cta
PageAddAnnoying ==
  /\ variant \in {"newsFeed", "userFeed"}
  /\ ~annoying
  /\ ~removedAnnoying
  /\ annoying' = TRUE
  /\ UNCHANGED <<variant, status, reactKey, gridShape, layout, genVars,
                 callVars, obsVars, scrollVars, linkVars>>
  /\ UNCHANGED <<flagVars, streamVars, probeVars, domVars, reentryVars, helperVars>>

\* the driver evaluates window.$wbOutlinkSet$.clear()
DriverClearOutlinks ==
  /\ variant \in {"userFeed", "pins"}
  /\ outlinks # {}
  /\ outlinks' = {}
  /\ UNCHANGED <<collector, urlParser, anchors, linkOp, before, engineVars>>

----------------------------------------------------------------------------
\* A behavior right after its setup expression has run

Init ==
  /\ collector = "fn"
  /\ outlinks = {}
  /\ urlParser = "about:"
  /\ anchors = <<>>
  /\ linkOp = "none"
  /\ before = {}
  /\ variant \in {"newsFeed", "userFeed", "pins"}
  /\ status \in [Nodes -> {"absent", "shown", "hidden"}]
  /\ variant # "newsFeed" => \A n \in Nodes : status[n] # "hidden"
  /\ reactKey \in [Nodes -> 0..MaxKeys]
  /\ \A n \in Nodes : (variant # "pins" \/ ~Attached(n)) => reactKey[n] = 0
  /\ gridShape \in {"ok", "wrongContainer", "noInternalKey"}
  /\ variant # "pins" => gridShape = "ok"
  /\ layout \in Layouts
  /\ scrollY = 0
  /\ annoying = FALSE
  /\ removedAnnoying \in BOOLEAN
  /\ variant = "pins" => removedAnnoying = FALSE
  /\ marked = {}
  /\ pc = "start"
  /\ feedItems = <<>>
  /\ cur = 0
  /\ rtrI = 0
  /\ rtrLen = 0
  /\ seenPins = {}
  /\ pinPhase = 1
  /\ call = "idle"
  /\ lastDone = "none"
  /\ stepsInCall = 0
  /\ yieldCount = [n \in Nodes |-> 0]
  /\ callsLessSteps = 0
  /\ nWaits = 0
  /\ lateFound = {}
  /\ lateScroll = FALSE
  /\ visitDetached = FALSE
  /\ mismatchSeen = FALSE
  /\ nErrors = 0
  /\ stopFlag = FALSE
  /\ noOutlinks = FALSE
  /\ wrStop = FALSE
  /\ StreamIdle
  /\ lastCanScroll = [asked |-> FALSE]
  /\ DomIdle
  /\ queued = 0
  /\ fromQueue = FALSE
  /\ lateCalls = 0
  /\ HelperIdle

Next ==
  \/ FeedAdvance
  \/ FeedScrollDelayElapsed
  \/ UserDetailDelayElapsed
  \/ FeedLoadDelayElapsed
  \/ PinsAdvance
  \/ PinsScrollDelayElapsed
  \/ PageInsert
  \/ PageRemove
  \/ PageRelayout
  \/ PageRekey
  \/ PageResize
  \/ PageScroll
  \/ PageAddAnnoying
  \/ DriverClearOutlinks

Spec == Init /\ [][Next]_vars

SpecLinks == LinkInit /\ [][LinkNext]_vars

\* the same behaviors on a page that never changes: no node is added or
\* removed, the extents stay as they are, every timer fires and the driver
\* keeps calling the handler
StaticInit ==
  /\ Init
  /\ variant \in {"newsFeed", "userFeed"}

StaticNext ==
  \/ FeedAdvance
  \/ FeedScrollDelayElapsed
  \/ UserDetailDelayElapsed
  \/ FeedLoadDelayElapsed

SpecStatic ==
  /\ StaticInit
  /\ [][StaticNext]_vars
  /\ WF_vars(FeedAdvance)
  /\ WF_vars(FeedScrollDelayElapsed)
  /\ WF_vars(UserDetailDelayElapsed)
  /\ WF_vars(FeedLoadDelayElapsed)

----------------------------------------------------------------------------
\* The outlinks channel: what the driver's OUTLINKS_EXPRESSION and
\* CLEAR_OUTLINKS_EXPRESSION meet in a page that carries one behavior.
\*   "fn"    part_002, pinterest.js: window.$wbOutlinkSet$ and a getter
\*   "local" facebookNewsFeed.js, part_001: a Set of the closure and a getter
\*   "class" part_000, facebookUserFeed.js: the OutLinkCollector as the value

\* typeof window.$wbOutlinkSet$ !== 'undefined'
HasOutlinkSet(col) == col = "fn"

\* the value of window.$wbOutlinks$
wbOutlinks(col, set) ==
  IF col = "class"
    THEN [kind |-> "OutLinkCollector", entries |-> set]
    ELSE [kind |-> "Array", entries |-> set]

\* the driver evaluates window.$wbOutlinkSet$.clear(): a TypeError where the
\* behavior defined no such global
EvalClearOutlinks ==
  /\ IF HasOutlinkSet(collector)
       THEN outlinks' = {} /\ linkOp' = "evalClear"
       ELSE outlinks' = outlinks /\ linkOp' = "evalClearThrew"
  /\ before' = outlinks
  /\ UNCHANGED <<collector, urlParser, anchors, engineVars>>

ChannelInit ==
  /\ collector \in {"class", "fn", "local"}
  /\ outlinks = {}
  /\ urlParser = "about:"
  /\ anchors = <<>>
  /\ linkOp = "none"
  /\ before = {}
  /\ EngineIdle

ChannelNext ==
  \/ PageAddAnchor
  \/ PageDropAnchors
  \/ CollectFrom
  \/ EvalClearOutlinks

SpecChannel == ChannelInit /\ [][ChannelNext]_vars

----------------------------------------------------------------------------
\* The globals of the README's BEHAVIOR_PAUSED_EXPRESSION and
\* NO_OUT_LINKS_EXPRESS, set by the driver while a feed behavior runs.  No
\* statement of facebookNewsFeed.js or part_002 reads either of them.

\* the driver sets window.$WBBehaviorPaused = true
DriverSetPaused ==
  /\ Running
  /\ ~stopFlag
  /\ stopFlag' = TRUE
  /\ UNCHANGED <<noOutlinks, wrStop, pageVars, genVars, callVars, obsVars, scrollVars,
                 linkVars, streamVars, probeVars,
                 domVars, reentryVars, helperVars>>

\* the driver evaluates window.$WBNOOUTLINKS = true
DriverSetNoOutlinks ==
  /\ Running
  /\ ~noOutlinks
  /\ noOutlinks' = TRUE
  /\ UNCHANGED <<stopFlag, wrStop, pageVars, genVars, callVars, obsVars, scrollVars,
                 linkVars, streamVars, probeVars,
                 domVars, reentryVars, helperVars>>

FlagsInit ==
  /\ Init
  /\ variant \in {"newsFeed", "userFeed"}

FlagsNext ==
  \/ FeedAdvance
  \/ FeedScrollDelayElapsed
  \/ UserDetailDelayElapsed
  \/ FeedLoadDelayElapsed
  \/ PageInsert
  \/ DriverSetPaused
  \/ DriverSetNoOutlinks

SpecFlags == FlagsInit /\ [][FlagsNext]_vars

----------------------------------------------------------------------------
\* MutationStream (facebookFeed.js 329-449).  A resolved promise resumes the
\* generator in a microtask, before any timer or observer callback can run,
\* so a resolution and the statements up to the generator's next suspension
\* are one step.

MaxEmit == 2
MaxPolls == 2
MaxDisconnect == 3

Min2(a, b) == IF a <= b THEN a ELSE b

nonStreamVars == <<linkVars, pageVars, genVars, callVars, obsVars, scrollVars,
                   flagVars, probeVars, domVars, reentryVars, helperVars>>

\* this.mo.disconnect(); this._loopStream = false;
\* if (this._resolve) this._resolve(null); this._resolve = null;
disconnectKeepsResolver(m) == [m EXCEPT !.mo = FALSE, !.loopStream = FALSE]

disconnect(m) ==
  [m EXCEPT !.mo = FALSE, !.loopStream = FALSE, !.resolve = "null"]

\* the object together with what a call of disconnect() is seen to do
StreamSt == [ms |-> ms, nDisconnect |-> nDisconnect, waiterNulls |-> waiterNulls]

SetStreamSt(st) ==
  /\ ms' = st.ms
  /\ nDisconnect' = st.nDisconnect
  /\ waiterNulls' = st.waiterNulls

\* one call of disconnect(): `if (this._resolve)` is true of any resolver that
\* was stored, also of one whose promise is settled already
DisconnectCall(st) ==
  [ms          |-> disconnect(st.ms),
   nDisconnect |-> Min2(st.nDisconnect + 1, MaxDisconnect),
   waiterNulls |-> IF st.ms.resolve # "null"
                     THEN Min2(st.waiterNulls + 1, 2) ELSE st.waiterNulls]

ItrFinishWithoutDisconnect(st, why) ==
  /\ SetStreamSt(st)
  /\ itr' = "done"
  /\ endedBy' = why

\* the generator runs off its end: this.disconnect() after the loop, or
\* `return this.disconnect()` of the start test
ItrFinish(st, why) ==
  /\ SetStreamSt(DisconnectCall(st))
  /\ itr' = "done"
  /\ endedBy' = why

\* while (this._loopStream) { await this._getNext() ...: streamItr waits for
\* the waiter alone, predicateStreamItr races it with the polling interval
ItrLoopHead(st) ==
  IF st.ms.loopStream
    THEN /\ SetStreamSt([st EXCEPT !.ms.resolve = "pending", !.waiterNulls = 0])
         /\ checkTo' = (itrKind = "predicate")
         /\ itr' = "await"
         /\ UNCHANGED endedBy
    ELSE /\ ItrFinish(st, "loop")
         /\ UNCHANGED checkTo

ItrAfterWaitKeepsInterval(st, next, why, interval) ==
  /\ checkTo' = interval
  /\ IF next = "null"
       THEN ItrFinish(st, why) /\ UNCHANGED nEmitted
       ELSE /\ SetStreamSt(st)
            /\ itr' = "yield"
            /\ nEmitted' = nEmitted + 1
            /\ UNCHANGED endedBy

\* the wait is over: if (checkTo) clearInterval(checkTo);
\* if (next == null) break; yield next;
ItrAfterWait(st, next, why, interval) ==
  /\ checkTo' = FALSE
  /\ IF next = "null"
       THEN ItrFinish(st, why) /\ UNCHANGED nEmitted
       ELSE /\ SetStreamSt(st)
            /\ itr' = "yield"
            /\ nEmitted' = nEmitted + 1
            /\ UNCHANGED endedBy

\* observe(elem, config) and the generator object handed out
MakeStream(kind) ==
  /\ ms' = [ms EXCEPT !.mo = TRUE, !.loopStream = TRUE]
  /\ itr' = "start"
  /\ itrKind' = kind
  /\ endedBy' = "none"
  /\ nDisconnect' = 0
  /\ nEmitted' = 0
  /\ nPolls' = 0
  /\ waiterNulls' = 0
  /\ UNCHANGED <<checkTo, startPredicate, stopPredicate, nonStreamVars>>

\* observeStream(elem, config)
ObserveStream ==
  /\ itr \in {"none", "done"}
  /\ MakeStream("stream")

\* predicatedStream(elem, config, startPredicate, stopPredicate)
PredicatedStream ==
  /\ itr \in {"none", "done"}
  /\ MakeStream("predicate")

PullWithoutStartTest ==
  /\ itr \in {"start", "yield"}
  /\ ItrLoopHead(StreamSt)
  /\ UNCHANGED <<itrKind, startPredicate, stopPredicate, nEmitted, nPolls,
                 nonStreamVars>>

\* the consumer calls next() on the suspended generator
Pull ==
  /\ itr \in {"start", "yield"}
  /\ IF itr = "start" /\ itrKind = "predicate" /\ ~startPredicate
       THEN ItrFinish(StreamSt, "start") /\ UNCHANGED checkTo
       ELSE ItrLoopHead(StreamSt)
  /\ UNCHANGED <<itrKind, startPredicate, stopPredicate, nEmitted, nPolls,
                 nonStreamVars>>

\* the observer's callback delivers a batch while the generator waits
MutationArrives ==
  /\ itr = "await"
  /\ ms.mo
  /\ nEmitted < MaxEmit
  /\ ItrAfterWait([StreamSt EXCEPT !.ms.resolve = "settled"], "batch", "none",
                  checkTo)
  /\ UNCHANGED <<itrKind, startPredicate, stopPredicate, nPolls, nonStreamVars>>

IntervalTickNeverResolves ==
  /\ checkTo
  /\ nPolls' = Min2(nPolls + 1, MaxPolls)
  /\ UNCHANGED <<ms, nDisconnect, waiterNulls, itr, endedBy, checkTo, nEmitted>>
  /\ UNCHANGED <<itrKind, startPredicate, stopPredicate, nonStreamVars>>

\* the setInterval callback: if (stopPredicate()) { clearInterval(checkTo);
\* return resolve(null); }
IntervalTick ==
  /\ checkTo
  /\ nPolls' = Min2(nPolls + 1, MaxPolls)
  /\ IF stopPredicate
       THEN ItrAfterWait(StreamSt, "null", "stop", FALSE)
       ELSE UNCHANGED <<ms, nDisconnect, waiterNulls, itr, endedBy, checkTo,
                        nEmitted>>
  /\ UNCHANGED <<itrKind, startPredicate, stopPredicate, nonStreamVars>>

\* disconnect() called from outside the generator
ExternalDisconnect ==
  /\ itr # "none"
  /\ IF itr = "await"
       THEN ItrAfterWait(DisconnectCall(StreamSt), "null", "disconnect", checkTo)
       ELSE /\ SetStreamSt(DisconnectCall(StreamSt))
            /\ UNCHANGED <<itr, endedBy, checkTo, nEmitted>>
  /\ UNCHANGED <<itrKind, startPredicate, stopPredicate, nPolls, nonStreamVars>>

\* the consumer leaves its for-await loop (break, return): return() finishes
\* the suspended generator, which has no finally block
ConsumerReturn ==
  /\ itr = "yield"
  /\ itr' = "done"
  /\ endedBy' = "return"
  /\ UNCHANGED <<ms, itrKind, checkTo, startPredicate, stopPredicate,
                 nDisconnect, nEmitted, nPolls, waiterNulls, nonStreamVars>>

\* the page changes what the predicates see
PageStartChanges ==
  /\ itr \in {"none", "start", "done"}
  /\ startPredicate' = ~startPredicate
  /\ UNCHANGED <<ms, itr, itrKind, checkTo, stopPredicate, endedBy,
                 nDisconnect, nEmitted, nPolls, waiterNulls, nonStreamVars>>

PageStopBecomesTrue ==
  /\ ~stopPredicate
  /\ stopPredicate' = TRUE
  /\ UNCHANGED <<ms, itr, itrKind, checkTo, startPredicate, endedBy,
                 nDisconnect, nEmitted, nPolls, waiterNulls, nonStreamVars>>

PageStopBecomesFalse ==
  /\ stopPredicate
  /\ stopPredicate' = FALSE
  /\ UNCHANGED <<ms, itr, itrKind, checkTo, startPredicate, endedBy,
                 nDisconnect, nEmitted, nPolls, waiterNulls, nonStreamVars>>

StreamInit ==
  /\ collector = "fn"
  /\ outlinks = {}
  /\ urlParser = "about:"
  /\ anchors = <<>>
  /\ linkOp = "none"
  /\ before = {}
  /\ EngineIdle

StreamNext ==
  \/ ObserveStream
  \/ PredicatedStream
  \/ Pull
  \/ MutationArrives
  \/ IntervalTick
  \/ ExternalDisconnect
  \/ ConsumerReturn
  \/ PageStartChanges
  \/ PageStopBecomesTrue
  \/ PageStopBecomesFalse

SpecStream == StreamInit /\ [][StreamNext]_vars

\* a predicated stream whose stopPredicate, once true, stays true and whose
\* observed node is not mutated from then on; the interval keeps firing
MutationBeforeStop == ~stopPredicate /\ MutationArrives

StreamStopNext ==
  \/ PredicatedStream
  \/ Pull
  \/ MutationBeforeStop
  \/ IntervalTick
  \/ ExternalDisconnect
  \/ PageStartChanges
  \/ PageStopBecomesTrue

SpecStreamStop ==
  /\ StreamInit
  /\ [][StreamStopNext]_vars
  /\ WF_vars(IntervalTick)

----------------------------------------------------------------------------
\* canScrollMore() as a function of the window and document measurements:
\* the page resizes and scrolls freely and the function is evaluated.

MaxExtent == 2

Extents == 0..MaxExtent

ExtentFields == {"innerHeight", "bodyScrollHeight", "bodyOffsetHeight",
                 "docClientHeight", "docScrollHeight", "docOffsetHeight"}

\* twitterTimeline.js: Math.max(document.body.scrollHeight,
\* document.documentElement.scrollHeight)
canScrollMoreTimeline ==
  scrollY + layout.innerHeight <
    Max2(layout.bodyScrollHeight, layout.docScrollHeight)

\* one of the measurements changes
PageExtentChanges ==
  /\ \E f \in ExtentFields, v \in Extents :
       /\ layout[f] # v
       /\ layout' = [layout EXCEPT ![f] = v]
  /\ lastCanScroll' = [lastCanScroll EXCEPT !.asked = FALSE]
  /\ UNCHANGED <<linkVars, variant, status, reactKey, gridShape, annoying,
                 genVars, callVars, obsVars, scrollVars, flagVars, streamVars,
                 domVars, reentryVars, helperVars>>

\* the window scrolls
PageScrollTo ==
  /\ \E y \in Extents : y # scrollY /\ scrollY' = y
  /\ lastCanScroll' = [lastCanScroll EXCEPT !.asked = FALSE]
  /\ UNCHANGED <<linkVars, pageVars, genVars, callVars, obsVars, flagVars,
                 streamVars, domVars, reentryVars, helperVars>>

\* canScrollMore() is called, in either variant
EvalCanScrollMore ==
  /\ lastCanScroll' = [asked |-> TRUE,
                       five  |-> canScrollMore,
                       two   |-> canScrollMoreTimeline]
  /\ UNCHANGED <<linkVars, pageVars, genVars, callVars, obsVars, scrollVars,
                 flagVars, streamVars, domVars, reentryVars, helperVars>>

ScrollInit == StreamInit

ScrollNext ==
  \/ PageExtentChanges
  \/ PageScrollTo
  \/ EvalCanScrollMore

SpecScroll == ScrollInit /\ [][ScrollNext]_vars

----------------------------------------------------------------------------
\* The scroll helpers and the style injection on a document whose nodes the
\* page lays out and moves.

MaxOffset == 2

\* values of elem.offsetTop: a node above its offset parent, a node without
\* layout, nodes further down
Offsets == (0 - 1)..MaxOffset

StyleSmooth == "body, .wr-scroll-container { scroll-behavior: smooth }"
StyleDebug == ".wr-debug-visited {border: 6px solid #3232F1;}"

StyleDefs == {StyleSmooth, StyleDebug}

\* the largest scrollY the document allows
MaxScrollY == Max2(0, layout.docScrollHeight - layout.innerHeight)

\* where window.scrollTo({top}) is heading
ScrollTarget(top) == Max2(0, Min2(top, MaxScrollY))

\* the positions of a scroll on its way from scrollY to target: the scroll is
\* smooth where the behaviour or the page's style says so
Between(target) ==
  {y \in 0..MaxScrollY : (scrollY <= y /\ y <= target) \/ (target <= y /\ y <= scrollY)}
    \cup {target}

\* scrollIntoView(elem) of facebookNewsFeed.js and facebookFeed.js:
\* elem.scrollIntoView({behavior, block: 'center', inline: 'center'})
scrollIntoView(fn, n) ==
  /\ lastScroll' = [fn |-> fn, elem |-> n, intoView |-> TRUE, block |-> "center",
                    scrollTo |-> FALSE, top |-> 0]
  /\ scrollY' \in 0..MaxScrollY

ScrollToElemOffsetAlwaysByOffset(fn, n) ==
  /\ lastScroll' = [fn |-> fn, elem |-> n, intoView |-> FALSE, block |-> "none",
                    scrollTo |-> TRUE, top |-> offsetTop[n]]
  /\ scrollY' \in Between(ScrollTarget(offsetTop[n]))

\* if (elem.offsetTop === 0) return scrollIntoView(elem);
\* window.scrollTo({behavior, left: 0, top: elem.offsetTop})
scrollToElemOffset(fn, n) ==
  IF offsetTop[n] = 0
    THEN scrollIntoView(fn, n)
    ELSE /\ lastScroll' = [fn |-> fn, elem |-> n, intoView |-> FALSE,
                           block |-> "none", scrollTo |-> TRUE,
                           top |-> offsetTop[n]]
         /\ scrollY' \in Between(ScrollTarget(offsetTop[n]))

domRest == <<linkVars, pageVars, genVars, callVars, obsVars, flagVars,
             streamVars, probeVars, reentryVars, helperVars>>

\* facebookNewsFeed.js scrollToElemOffset(elem)
ScrollToElemOffset ==
  /\ \E n \in Nodes : scrollToElemOffset("scrollToElemOffset", n)
  /\ UNCHANGED <<offsetTop, styles, lastStyle, domRest>>

\* facebookFeed.js scrollIt(elem), up to the timer it returns
ScrollIt ==
  /\ \E n \in Nodes : scrollToElemOffset("scrollIt", n)
  /\ UNCHANGED <<offsetTop, styles, lastStyle, domRest>>

\* layout moves a node
PageMovesElem ==
  /\ \E n \in Nodes, o \in Offsets :
       /\ o # offsetTop[n]
       /\ offsetTop' = [offsetTop EXCEPT ![n] = o]
  /\ UNCHANGED <<lastScroll, styles, lastStyle, scrollVars, domRest>>

AddStyleUnguarded(text) == Append(styles, text)

\* if (document.getElementById('$wrStyle$') == null) {
\*   style = createElement('style'); style.id = '$wrStyle$';
\*   style.textContent = styleDef; document.head.appendChild(style) }
addBehaviorStyle(text) ==
  IF styles = <<>> THEN Append(styles, text) ELSE styles

\* a behavior calls addBehaviorStyle(styleDef)
AddBehaviorStyle ==
  /\ \E text \in StyleDefs :
       /\ styles' = addBehaviorStyle(text)
       /\ lastStyle' = [op |-> "addBehaviorStyle", text |-> text,
                        before |-> styles]
  /\ UNCHANGED <<offsetTop, lastScroll, scrollVars, domRest>>

\* the setup of facebookFeed.js and slideShare.js, which carries the same
\* test inline with the smooth-scroll text
SetupInlineStyle ==
  /\ styles' = addBehaviorStyle(StyleSmooth)
  /\ lastStyle' = [op |-> "setup", text |-> StyleSmooth, before |-> styles]
  /\ UNCHANGED <<offsetTop, lastScroll, scrollVars, domRest>>

DomInit ==
  /\ Init
  /\ variant = "newsFeed"
  /\ status = [n \in Nodes |-> "absent"]
  /\ ~removedAnnoying

DomNext ==
  \/ ScrollToElemOffset
  \/ ScrollIt
  \/ PageMovesElem
  \/ AddBehaviorStyle
  \/ SetupInlineStyle

SpecDom == DomInit /\ [][DomNext]_vars

----------------------------------------------------------------------------
\* The feed behaviors alone (facebookNewsFeed.js, part_002) on a page that
\* inserts, removes and lays out nodes, resizes and scrolls.

FeedInit ==
  /\ Init
  /\ variant \in {"newsFeed", "userFeed"}

FeedNext ==
  \/ FeedAdvance
  \/ FeedScrollDelayElapsed
  \/ UserDetailDelayElapsed
  \/ FeedLoadDelayElapsed
  \/ PageInsert
  \/ PageRemove
  \/ PageRelayout
  \/ PageResize
  \/ PageScroll

SpecFeed == FeedInit /\ [][FeedNext]_vars

----------------------------------------------------------------------------
\* The sound item traversal (soundcloudArtist.js vistSoundItems and
\* playMultipleTracks).  The query excludes the marked items; an item is
\* marked and its outlinks are collected by the OutLinkCollector before the
\* window scrolls to it.

\* xpathGenerator(xpQueries.soundItem)
SoundQuery == Ordered({n \in Nodes : Attached(n) /\ n \notin marked})

\* soundItem = snapShot[i]; markElemAsVisited(soundItem);
\* OLC.collectFrom(soundItem); await scrollIntoViewWithDelay(soundItem)
SoundStartVisit(items) ==
  /\ cur' = Head(items)
  /\ feedItems' = Tail(items)
  /\ visitDetached' = (status[Head(items)] = "detached")
  /\ markElemAsVisited(Head(items))
  /\ CollectOutlinksFrom(Head(items))
  /\ EngineScroll(Head(items))
  /\ pc' = "scrollDelay"
  /\ call' = "pending"
  /\ UNCHANGED <<lastDone, nWaits, rtrI, rtrLen>>

\* the generator returns
SoundComplete ==
  /\ pc' = "completed"
  /\ call' = "idle"
  /\ lastDone' = "true"
  /\ UNCHANGED <<feedItems, cur, visitDetached, nWaits, rtrI, rtrLen, marked,
                 scrollVars, linkVars>>

\* if (snapShot.length === 0) { await delay(); ...
SoundStartLoadWait ==
  /\ pc' = "loadDelay"
  /\ nWaits' = nWaits + 1
  /\ call' = "pending"
  /\ UNCHANGED <<feedItems, cur, visitDetached, lastDone, rtrI, rtrLen, marked,
                 scrollVars, linkVars>>

SoundInnerLoopWaitsFirst(items) ==
  IF items # <<>>
    THEN SoundStartVisit(items)
    ELSE SoundStartLoadWait

\* the for loop goes on, or: snapShot = xpathGenerator(...);
\* if (snapShot.length === 0) {...} } while (snapShot.length > 0);
SoundInnerLoop(items) ==
  IF items # <<>>
    THEN SoundStartVisit(items)
    ELSE IF SoundQuery = <<>>
      THEN SoundStartLoadWait
      ELSE SoundStartVisit(SoundQuery)

\* playMultipleTracks: playable = tracks[i]; markElemAsVisited(playable);
\* await scrollIntoViewWithDelay(playable)
SoundStartTrack(i, len) ==
  /\ pc' = "trackDelay"
  /\ rtrI' = i
  /\ rtrLen' = len
  /\ scrollY' \in ScrollYs
  /\ call' = "pending"
  /\ UNCHANGED <<feedItems, cur, visitDetached, lastDone, nWaits, marked,
                 linkVars>>

soundRest == <<pageVars, seenPins, pinPhase, removedAnnoying, lateFound,
               lateScroll, mismatchSeen, nErrors, flagVars, streamVars,
               probeVars, domVars, reentryVars, helperVars>>

\* window.$WRIteratorHandler$() of the sound behavior
SoundAdvance ==
  /\ variant = "sound"
  /\ call = "idle"
  /\ pc \in {"start", "yieldItem", "yieldNoTracks", "yieldTrack", "completed"}
  /\ stepsInCall' = 0
  /\ callsLessSteps' = IF pc = "completed" THEN callsLessSteps
                                             ELSE callsLessSteps + 1
  /\ CASE pc = "start" ->
            IF SoundQuery = <<>> THEN SoundComplete
                                 ELSE SoundStartVisit(SoundQuery)
       [] pc \in {"yieldItem", "yieldNoTracks"} -> SoundInnerLoop(feedItems)
       [] pc = "yieldTrack" ->
            IF rtrI + 1 < rtrLen
              THEN SoundStartTrack(rtrI + 1, rtrLen)
              ELSE SoundInnerLoop(feedItems)
       [] pc = "completed" ->
            /\ call' = "idle"
            /\ lastDone' = "true"
            /\ UNCHANGED <<pc, feedItems, cur, visitDetached, nWaits, rtrI,
                           rtrLen, marked, scrollVars, linkVars>>
  /\ UNCHANGED <<yieldCount, soundRest>>

\* the delay of scrollIntoViewWithDelay(soundItem) elapses:
\* needToLoadMoreTracks(soundItem) decides between the click on the
\* more-tracks link, with its delay, and the one step of a single track
SoundScrollDelayElapsed ==
  /\ variant = "sound"
  /\ pc = "scrollDelay"
  /\ \E more \in BOOLEAN :
       IF more
         THEN /\ pc' = "clickDelay"
              /\ UNCHANGED <<call, lastDone, stepsInCall, callsLessSteps,
                             yieldCount>>
         ELSE /\ pc' = "yieldItem"
              /\ yieldCount' = Bump(yieldCount, cur)
              /\ YieldStep
  /\ UNCHANGED <<feedItems, cur, visitDetached, nWaits, rtrI, rtrLen, marked,
                 scrollVars, linkVars, soundRest>>

\* the delay of the click elapses: playMultipleTracks starts
SoundClickDelayElapsed ==
  /\ variant = "sound"
  /\ pc = "clickDelay"
  /\ \E len \in 0..MaxRtr :
       IF len = 0
         THEN /\ pc' = "yieldNoTracks"
              /\ YieldStep
              /\ UNCHANGED <<feedItems, cur, visitDetached, nWaits, rtrI,
                             rtrLen, marked, scrollVars, linkVars>>
         ELSE /\ SoundStartTrack(0, len)
              /\ UNCHANGED <<stepsInCall, callsLessSteps>>
  /\ UNCHANGED <<yieldCount, soundRest>>

\* the delay of scrollIntoViewWithDelay(playable) elapses: the track's step
SoundTrackDelayElapsed ==
  /\ variant = "sound"
  /\ pc = "trackDelay"
  /\ pc' = "yieldTrack"
  /\ YieldStep
  /\ UNCHANGED <<feedItems, cur, visitDetached, nWaits, rtrI, rtrLen, marked,
                 scrollVars, linkVars, yieldCount, soundRest>>

\* the load wait elapses: snapShot = xpathGenerator(...), then the loop test
SoundLoadDelayElapsed ==
  /\ variant = "sound"
  /\ pc = "loadDelay"
  /\ IF SoundQuery # <<>>
       THEN SoundStartVisit(SoundQuery)
       ELSE SoundComplete
  /\ lateFound' = SeqToSet(SoundQuery)
  /\ UNCHANGED <<stepsInCall, callsLessSteps, yieldCount, pageVars, seenPins,
                 pinPhase, removedAnnoying, lateScroll, mismatchSeen, nErrors,
                 flagVars, streamVars, probeVars, domVars, reentryVars, helperVars>>

\* behavior v, whose outlinks go to collector col, right after its setup
BehaviorStart(v, col) ==
  /\ collector = col
  /\ outlinks = {}
  /\ urlParser = "about:"
  /\ anchors = <<>>
  /\ linkOp = "none"
  /\ before = {}
  /\ variant = v
  /\ status \in [Nodes -> {"absent", "shown"}]
  /\ reactKey = [n \in Nodes |-> 0]
  /\ gridShape = "ok"
  /\ layout \in Layouts
  /\ scrollY = 0
  /\ annoying = FALSE
  /\ removedAnnoying = FALSE
  /\ marked = {}
  /\ pc = "start"
  /\ feedItems = <<>>
  /\ cur = 0
  /\ rtrI = 0
  /\ rtrLen = 0
  /\ seenPins = {}
  /\ pinPhase = 1
  /\ call = "idle"
  /\ lastDone = "none"
  /\ stepsInCall = 0
  /\ yieldCount = [n \in Nodes |-> 0]
  /\ callsLessSteps = 0
  /\ nWaits = 0
  /\ lateFound = {}
  /\ lateScroll = FALSE
  /\ visitDetached = FALSE
  /\ mismatchSeen = FALSE
  /\ nErrors = 0
  /\ stopFlag = FALSE
  /\ noOutlinks = FALSE
  /\ wrStop = FALSE
  /\ StreamIdle
  /\ lastCanScroll = [asked |-> FALSE]
  /\ DomIdle
  /\ queued = 0
  /\ fromQueue = FALSE
  /\ lateCalls = 0
  /\ HelperIdle

SoundInit == BehaviorStart("sound", "class")

\* the traversals that re-query and wait for more content, on a page that
\* inserts and removes nodes
TraverseInit == FeedInit \/ SoundInit

TraverseNext ==
  \/ FeedAdvance
  \/ FeedScrollDelayElapsed
  \/ UserDetailDelayElapsed
  \/ FeedLoadDelayElapsed
  \/ SoundAdvance
  \/ SoundScrollDelayElapsed
  \/ SoundClickDelayElapsed
  \/ SoundTrackDelayElapsed
  \/ SoundLoadDelayElapsed
  \/ PageInsert
  \/ PageRemove

SpecTraverse == TraverseInit /\ [][TraverseNext]_vars

----------------------------------------------------------------------------
\* The tweet traversal of twitterTimeline.js: timelineTraversalIterator is
\* consumed by a for-await loop of the same script, which works on the tweet
\* it got before it asks for the next one.  The behavior collects no outlinks.

\* xpathQuerySelector(tweetXpath): the class of a marked tweet is no longer
\* exactly "content"
TimelineQuery == Ordered({n \in Nodes : Attached(n) /\ n \notin marked})

\* the tail of the visit: yield new Tweet(aTweet, baseURI).  The constructor
\* throws where the tweet has no footer, no reply action or no reply button:
\* the generator is finished and the loop's next() rejects
TimelineYieldTweet(n) ==
  \E wellFormed \in BOOLEAN :
    IF wellFormed
      THEN /\ pc' = "yieldItem"
           /\ yieldCount' = Bump(yieldCount, n)
           /\ call' = "idle"
           /\ lastDone' = "false"
           /\ UNCHANGED nErrors
      ELSE /\ pc' = "completed"
           /\ call' = "idle"
           /\ lastDone' = "error"
           /\ nErrors' = nErrors + 1
           /\ UNCHANGED yieldCount

TimelineVisitLast(items) ==
  /\ cur' = items[Len(items)]
  /\ feedItems' = SubSeq(items, 1, Len(items) - 1)
  /\ visitDetached' = (status[items[Len(items)]] = "detached")
  /\ markElemAsVisited(items[Len(items)])
  /\ EngineScroll(items[Len(items)])
  /\ TimelineYieldTweet(items[Len(items)])

\* aTweet = tweets.shift(); aTweet.classList.add("$wrvistited$");
\* aTweet.scrollIntoView(true, ...); yield new Tweet(aTweet, baseURI)
TimelineVisit(items) ==
  /\ cur' = Head(items)
  /\ feedItems' = Tail(items)
  /\ visitDetached' = (status[Head(items)] = "detached")
  /\ markElemAsVisited(Head(items))
  /\ EngineScroll(Head(items))
  /\ TimelineYieldTweet(Head(items))

timelineRest == <<pageVars, rtrI, rtrLen, seenPins, pinPhase, removedAnnoying,
                  mismatchSeen, flagVars, streamVars, probeVars, domVars,
                  reentryVars, helperVars,
                  linkVars>>

\* the for-await loop calls next(): the next tweet of the list, or
\* await new Promise(r => setTimeout(r, 3000)) when the list is empty
TimelinePull ==
  /\ variant = "timeline"
  /\ call = "idle"
  /\ pc \in {"start", "yieldItem"}
  /\ LET items == IF pc = "start" THEN TimelineQuery ELSE feedItems IN
       IF items # <<>>
         THEN /\ TimelineVisit(items)
              /\ UNCHANGED nWaits
         ELSE /\ pc' = "loadDelay"
              /\ call' = "pending"
              /\ nWaits' = nWaits + 1
              /\ UNCHANGED <<feedItems, cur, visitDetached, marked, lastDone,
                             yieldCount, nErrors, scrollVars>>
  /\ stepsInCall' = IF pc' = "yieldItem" THEN 1 ELSE 0
  /\ callsLessSteps' = IF pc' = "yieldItem" THEN callsLessSteps
                                            ELSE callsLessSteps + 1
  /\ UNCHANGED <<lateFound, lateScroll, timelineRest>>

\* the timer fires: tweets = tweets.concat(xpathQuerySelector(tweetXpath));
\* } while (tweets.length > 0 && canScrollMore());
TimelineWaitElapsed ==
  /\ variant = "timeline"
  /\ pc = "loadDelay"
  /\ lateFound' = SeqToSet(TimelineQuery)
  /\ lateScroll' = canScrollMoreTimeline
  /\ IF TimelineQuery # <<>> /\ canScrollMoreTimeline
       THEN TimelineVisit(feedItems \o TimelineQuery)
       ELSE /\ feedItems' = feedItems \o TimelineQuery
            /\ pc' = "completed"
            /\ call' = "idle"
            /\ lastDone' = "true"
            /\ UNCHANGED <<cur, visitDetached, marked, yieldCount, nErrors,
                           scrollVars>>
  /\ stepsInCall' = IF pc' = "yieldItem" THEN stepsInCall + 1 ELSE stepsInCall
  /\ callsLessSteps' = IF pc' = "yieldItem" THEN callsLessSteps - 1
                                            ELSE callsLessSteps
  /\ UNCHANGED <<nWaits, timelineRest>>

TimelineInit == BehaviorStart("timeline", "none")

\* the traversals that keep a pending list, on a page that inserts and
\* removes nodes
PendingInit == FeedInit \/ SoundInit \/ TimelineInit

PendingNext ==
  \/ TraverseNext
  \/ TimelinePull
  \/ TimelineWaitElapsed

SpecPending == PendingInit /\ [][PendingNext]_vars

----------------------------------------------------------------------------
\* The tweet traversal behind window.$WRTweetIterator$ (facebookFeed.js
\* 612-877): timelineIterator with the Tweet class.  Every tweet is opened in
\* the permalink overlay after its own step; a tweet with replies or in a
\* thread has its replies visited there.  While a tweet is open the page
\* renders at most MaxRtr replies and adds none later.  The behavior collects
\* no outlinks.

\* xpathQuerySelector(tweetXpath)
TweetQuery == Ordered({n \in Nodes : Attached(n) /\ n \notin marked})

tweetGen == <<feedItems, cur, visitDetached, marked, rtrI, rtrLen, nWaits,
              nErrors, scrollVars>>

\* the generator moves on to another await or to its end, touching nothing
TweetGo(where, pending, done) ==
  /\ pc' = where
  /\ call' = pending
  /\ lastDone' = done
  /\ UNCHANGED tweetGen

\* aTweet = new Tweet(tweets.shift(), baseURI): the constructor marks the
\* element and then throws where the tweet has no footer, no reply action or
\* no reply button; await scrollIntoViewWithDelay(aTweet.tweet, 500)
TweetStartVisitUnmarked(items) ==
  /\ cur' = Head(items)
  /\ feedItems' = Tail(items)
  /\ visitDetached' = (status[Head(items)] = "detached")
  /\ UNCHANGED <<marked, rtrI, rtrLen, nWaits>>
  /\ \E wellFormed \in BOOLEAN :
       IF wellFormed
         THEN /\ EngineScroll(Head(items))
              /\ pc' = "scrollDelay"
              /\ call' = "pending"
              /\ UNCHANGED <<lastDone, nErrors>>
         ELSE /\ pc' = "completed"
              /\ call' = "idle"
              /\ lastDone' = "error"
              /\ nErrors' = nErrors + 1
              /\ UNCHANGED scrollVars

TweetStartVisit(items) ==
  /\ cur' = Head(items)
  /\ feedItems' = Tail(items)
  /\ visitDetached' = (status[Head(items)] = "detached")
  /\ markElemAsVisited(Head(items))
  /\ UNCHANGED <<rtrI, rtrLen, nWaits>>
  /\ \E wellFormed \in BOOLEAN :
       IF wellFormed
         THEN /\ EngineScroll(Head(items))
              /\ pc' = "scrollDelay"
              /\ call' = "pending"
              /\ UNCHANGED <<lastDone, nErrors>>
         ELSE /\ pc' = "completed"
              /\ call' = "idle"
              /\ lastDone' = "error"
              /\ nErrors' = nErrors + 1
              /\ UNCHANGED scrollVars

\* } while (tweets.length > 0 && canScrollMore());
TweetLoopTest(items) ==
  IF items # <<>> /\ canScrollMore
    THEN TweetStartVisit(items)
    ELSE /\ feedItems' = items
         /\ pc' = "completed"
         /\ call' = "idle"
         /\ lastDone' = "true"
         /\ UNCHANGED <<cur, visitDetached, marked, rtrI, rtrLen, nWaits,
                        nErrors, scrollVars>>

\* while (tweets.length > 0) {...}  tweets = xpathQuerySelector(tweetXpath);
\* if (tweets.length === 0) { await delay(); ...
TweetInnerLoop(items) ==
  IF items # <<>>
    THEN TweetStartVisit(items)
    ELSE IF TweetQuery = <<>>
      THEN /\ pc' = "loadDelay"
           /\ call' = "pending"
           /\ nWaits' = nWaits + 1
           /\ UNCHANGED <<feedItems, cur, visitDetached, marked, rtrI, rtrLen,
                          nErrors, scrollVars, lastDone>>
      ELSE TweetLoopTest(TweetQuery)

\* await this.closeFullTweetOverlay(): without the dismiss element it is
\* Promise.resolve(false) and the loop goes on; with it, a click and a wait
\* for the base URI of the timeline
TweetClose ==
  \E overlay \in BOOLEAN :
    IF overlay
      THEN TweetGo("closeWait", "pending", lastDone)
      ELSE TweetInnerLoop(feedItems)

\* visitThreadReplyTweets: markElemAsVisited(aTweet);
\* await scrollIntoViewWithDelay(aTweet, 500)
TweetStartReply(i, len) ==
  /\ pc' = "threadDelay"
  /\ rtrI' = i
  /\ rtrLen' = len
  /\ scrollY' \in ScrollYs
  /\ call' = "pending"
  /\ UNCHANGED <<feedItems, cur, visitDetached, marked, nWaits, nErrors,
                 lastDone>>

\* the replies are through: the re-query finds none, and a click on the
\* show-more button, where there is one, is followed by await delay()
TweetRepliesDone ==
  \E showMore \in BOOLEAN :
    IF showMore
      THEN TweetGo("threadLoadDelay", "pending", lastDone)
      ELSE TweetClose

tweetRest == <<pageVars, seenPins, pinPhase, removedAnnoying, mismatchSeen,
               flagVars, streamVars, probeVars, domVars, reentryVars,
               helperVars, linkVars>>

\* window.$WRIteratorHandler$() of the tweet behavior
TweetsAdvance ==
  /\ variant = "tweets"
  /\ call = "idle"
  /\ pc \in {"start", "yieldItem", "yieldOverlay", "yieldThread", "completed"}
  /\ stepsInCall' = 0
  /\ callsLessSteps' = IF pc = "completed" THEN callsLessSteps
                                             ELSE callsLessSteps + 1
  /\ CASE pc = "start" -> TweetInnerLoop(TweetQuery)
       [] pc = "yieldItem" -> TweetGo("openWait", "pending", lastDone)
       [] pc = "yieldOverlay" -> TweetClose
       [] pc = "yieldThread" ->
            IF rtrI + 1 < rtrLen
              THEN TweetStartReply(rtrI + 1, rtrLen)
              ELSE TweetRepliesDone
       [] pc = "completed" -> TweetGo("completed", "idle", "true")
  /\ UNCHANGED <<yieldCount, lateFound, lateScroll, tweetRest>>

\* a step is yielded by the timer or page event that ends a wait
TweetYield(where) ==
  /\ pc' = where
  /\ YieldStep
  /\ UNCHANGED tweetGen

\* the delay of scrollIntoViewWithDelay(aTweet.tweet, 500) elapses:
\* yield aTweet.tweet
TweetsScrollDelayElapsed ==
  /\ variant = "tweets"
  /\ pc = "scrollDelay"
  /\ TweetYield("yieldItem")
  /\ yieldCount' = Bump(yieldCount, cur)
  /\ UNCHANGED <<lateFound, lateScroll, tweetRest>>

\* the base URI has become the tweet's permalink: openFullTweet is over.
\* viewRegularTweet yields the overlay; viewRepliesOrThread visits the
\* replies, or closes the overlay at once when there is none
TweetsOpenWaitElapsed ==
  /\ variant = "tweets"
  /\ pc = "openWait"
  /\ \E thread \in BOOLEAN, len \in 0..MaxRtr :
       IF ~thread
         THEN TweetYield("yieldOverlay")
         ELSE /\ IF len = 0 THEN TweetClose ELSE TweetStartReply(0, len)
              /\ UNCHANGED <<stepsInCall, callsLessSteps>>
  /\ UNCHANGED <<yieldCount, lateFound, lateScroll, tweetRest>>

\* the delay of scrollIntoViewWithDelay(aTweet, 500) in the overlay elapses
TweetsThreadDelayElapsed ==
  /\ variant = "tweets"
  /\ pc = "threadDelay"
  /\ TweetYield("yieldThread")
  /\ UNCHANGED <<yieldCount, lateFound, lateScroll, tweetRest>>

\* the delay after the show-more click elapses: the last re-query, the end
\* of the do-while, closeFullTweetOverlay
TweetsThreadLoadDelayElapsed ==
  /\ variant = "tweets"
  /\ pc = "threadLoadDelay"
  /\ TweetClose
  /\ UNCHANGED <<stepsInCall, callsLessSteps, yieldCount, lateFound,
                 lateScroll, tweetRest>>

\* the base URI is the timeline's again: closeFullTweetOverlay is over
TweetsCloseWaitElapsed ==
  /\ variant = "tweets"
  /\ pc = "closeWait"
  /\ TweetInnerLoop(feedItems)
  /\ UNCHANGED <<stepsInCall, callsLessSteps, yieldCount, lateFound,
                 lateScroll, tweetRest>>

\* the load wait elapses: tweets = xpathQuerySelector(tweetXpath), loop test
TweetsLoadDelayElapsed ==
  /\ variant = "tweets"
  /\ pc = "loadDelay"
  /\ lateFound' = SeqToSet(TweetQuery)
  /\ lateScroll' = canScrollMore
  /\ TweetLoopTest(TweetQuery)
  /\ UNCHANGED <<stepsInCall, callsLessSteps, yieldCount, tweetRest>>

TweetsInit == BehaviorStart("tweets", "none")

\* the traversals with a detail sub-traversal per candidate, on a page that
\* inserts and removes nodes
DetailInit ==
  \/ Init /\ variant = "userFeed"
  \/ TweetsInit

DetailNext ==
  \/ FeedAdvance
  \/ FeedScrollDelayElapsed
  \/ UserDetailDelayElapsed
  \/ FeedLoadDelayElapsed
  \/ TweetsAdvance
  \/ TweetsScrollDelayElapsed
  \/ TweetsOpenWaitElapsed
  \/ TweetsThreadDelayElapsed
  \/ TweetsThreadLoadDelayElapsed
  \/ TweetsCloseWaitElapsed
  \/ TweetsLoadDelayElapsed
  \/ PageInsert
  \/ PageRemove

SpecDetail == DetailInit /\ [][DetailNext]_vars

----------------------------------------------------------------------------
\* The news feed traversal of slideShare.js (newsFeedIterator, 466-491),
\* the one generator that reads the stop flag window.$WRSTP$.  It collects
\* no outlinks and its handler removes no element.

\* getFeedItems(xpathG)
SlideQuery ==
  Ordered({n \in Nodes :
    Attached(n) /\ n \notin marked /\ ~OffsetTopIsZero(n)})

\* if (window.$WRSTP$) return;
SlideReturn(items, node) ==
  /\ feedItems' = items
  /\ cur' = node
  /\ pc' = "completed"
  /\ call' = "idle"
  /\ lastDone' = "true"
  /\ UNCHANGED <<visitDetached, nWaits, scrollVars>>

\* await scrollIt(feedItem)
SlideStartVisit(items) ==
  /\ cur' = Head(items)
  /\ feedItems' = Tail(items)
  /\ visitDetached' = (status[Head(items)] = "detached")
  /\ EngineScroll(Head(items))
  /\ pc' = "scrollDelay"
  /\ call' = "pending"
  /\ UNCHANGED <<lastDone, nWaits>>

\* if (window.$WRSTP$) return;  } while (feedItems.length > 0 && canScrollMore());
SlideLoopTest(items) ==
  IF wrStop
    THEN SlideReturn(items, cur)
    ELSE IF items # <<>> /\ canScrollMore
      THEN SlideStartVisit(items)
      ELSE SlideReturn(items, cur)

SlideInnerLoopStopsAtLoopEnd(items) ==
  IF items # <<>>
    THEN SlideStartVisit(items)
    ELSE IF SlideQuery = <<>>
      THEN /\ feedItems' = <<>>
           /\ pc' = "loadDelay"
           /\ nWaits' = nWaits + 1
           /\ call' = "pending"
           /\ UNCHANGED <<cur, visitDetached, lastDone, scrollVars>>
      ELSE SlideLoopTest(SlideQuery)

\* while (feedItems.length > 0) { feedItem = feedItems.shift();
\* if (window.$WRSTP$) return; ... }  if (window.$WRSTP$) return;
\* feedItems = getFeedItems(xpathG); if (feedItems.length === 0) {await delay()
SlideInnerLoop(items) ==
  IF items # <<>>
    THEN IF wrStop
      THEN SlideReturn(Tail(items), Head(items))
      ELSE SlideStartVisit(items)
    ELSE IF wrStop
      THEN SlideReturn(items, cur)
      ELSE IF SlideQuery = <<>>
        THEN /\ feedItems' = <<>>
             /\ pc' = "loadDelay"
             /\ nWaits' = nWaits + 1
             /\ call' = "pending"
             /\ UNCHANGED <<cur, visitDetached, lastDone, scrollVars>>
        ELSE SlideLoopTest(SlideQuery)

slideRest == <<pageVars, rtrI, rtrLen, seenPins, pinPhase, removedAnnoying,
               lateFound, lateScroll, mismatchSeen, nErrors, flagVars,
               streamVars, probeVars, domVars, reentryVars, helperVars, linkVars>>

\* window.$WRIteratorHandler$(): await $WRNFIterator$.next()
SlideAdvance ==
  /\ variant = "slideFeed"
  /\ call = "idle"
  /\ pc \in {"start", "yieldItem", "completed"}
  /\ CASE pc = "start" -> SlideInnerLoop(SlideQuery)
       [] pc = "yieldItem" -> SlideInnerLoop(feedItems)
       [] pc = "completed" ->
            /\ call' = "idle"
            /\ lastDone' = "true"
            /\ UNCHANGED <<pc, feedItems, cur, visitDetached, nWaits,
                           scrollVars>>
  /\ stepsInCall' = 0
  /\ callsLessSteps' = IF pc = "completed" THEN callsLessSteps
                                             ELSE callsLessSteps + 1
  /\ UNCHANGED <<marked, yieldCount, slideRest>>

\* the delay of scrollIt elapses: feedItem.classList.add('$wrvistited$');
\* yield feedItem
SlideScrollDelayElapsed ==
  /\ variant = "slideFeed"
  /\ pc = "scrollDelay"
  /\ markElemAsVisited(cur)
  /\ pc' = "yieldItem"
  /\ yieldCount' = Bump(yieldCount, cur)
  /\ YieldStep
  /\ UNCHANGED <<feedItems, cur, visitDetached, nWaits, scrollVars, slideRest>>

\* await delay() ends: feedItems = getFeedItems(xpathG);
\* if (window.$WRSTP$) return; then the loop test
SlideLoadDelayElapsed ==
  /\ variant = "slideFeed"
  /\ pc = "loadDelay"
  /\ SlideLoopTest(SlideQuery)
  /\ UNCHANGED <<marked, stepsInCall, yieldCount, callsLessSteps, slideRest>>

\* the driver sets window.$WRSTP$ = true
DriverSetStop ==
  /\ variant = "slideFeed"
  /\ ~wrStop
  /\ wrStop' = TRUE
  /\ UNCHANGED <<stopFlag, noOutlinks, pageVars, genVars, callVars, obsVars,
                 scrollVars, linkVars, streamVars, probeVars, domVars,
                 reentryVars, helperVars>>

StopInit == BehaviorStart("slideFeed", "none")

StopNext ==
  \/ SlideAdvance
  \/ SlideScrollDelayElapsed
  \/ SlideLoadDelayElapsed
  \/ DriverSetStop
  \/ PageInsert
  \/ PageRemove
  \/ PageRelayout
  \/ PageResize
  \/ PageScroll

SpecStop == StopInit /\ [][StopNext]_vars

----------------------------------------------------------------------------
\* The two traversals with a step that can throw (iteratePins of
\* pinterest.js, timelineIterator of facebookFeed.js) on a page that inserts,
\* removes and recycles nodes, with a driver that keeps calling the handler

FaultInit ==
  \/ /\ Init
     /\ variant = "pins"
  \/ TweetsInit

FaultNext ==
  \/ PinsAdvance
  \/ PinsScrollDelayElapsed
  \/ TweetsAdvance
  \/ TweetsScrollDelayElapsed
  \/ TweetsOpenWaitElapsed
  \/ TweetsThreadDelayElapsed
  \/ TweetsThreadLoadDelayElapsed
  \/ TweetsCloseWaitElapsed
  \/ TweetsLoadDelayElapsed
  \/ PageInsert
  \/ PageRemove
  \/ PageRekey

SpecFault == FaultInit /\ [][FaultNext]_vars

----------------------------------------------------------------------------
\* The feed behaviors under a driver that does not keep to one call at a
\* time, and that goes on calling after the run is over.  next() on an async
\* generator that is running, or that has requests waiting, appends the
\* request to the generator's queue; when the generator yields or returns it
\* settles the oldest request and, if one is waiting, resumes for it at once.

MaxQueued == 2
MaxLateCalls == 1

\* the generator with a request waiting resumes before the driver runs again
FeedServeQueuedWhilePending ==
  /\ variant \in {"newsFeed", "userFeed"}
  /\ queued > 0
  /\ queued' = queued - 1
  /\ fromQueue' = TRUE
  /\ UNCHANGED <<linkVars, pageVars, genVars, callVars, obsVars, scrollVars,
                 flagVars, streamVars, probeVars, domVars, helperVars, lateCalls>>

FeedServeQueued ==
  /\ variant \in {"newsFeed", "userFeed"}
  /\ call = "idle"
  /\ queued > 0
  /\ queued' = queued - 1
  /\ fromQueue' = TRUE
  /\ stepsInCall' = 0
  /\ callsLessSteps' = IF pc = "completed" THEN callsLessSteps
                                             ELSE callsLessSteps + 1
  /\ FeedResume
  /\ UNCHANGED <<pageVars, marked, seenPins, pinPhase, removedAnnoying,
                 yieldCount, lateFound, lateScroll, mismatchSeen, nErrors,
                 linkVars, flagVars, streamVars, probeVars, domVars, helperVars, lateCalls>>

\* window.$WRIteratorHandler$() called at any time: the removal of the
\* annoying element runs at once; next() resumes the generator if it is
\* suspended with nothing waiting, and is queued while a call is pending
FeedCall ==
  /\ variant \in {"newsFeed", "userFeed"}
  /\ HandlerRemoveAnnoying
  /\ \/ /\ call = "idle"
        /\ queued = 0
        /\ lastDone = "true" => lateCalls < MaxLateCalls
        /\ lateCalls' = IF lastDone = "true" THEN lateCalls + 1 ELSE lateCalls
        /\ fromQueue' = FALSE
        /\ stepsInCall' = 0
        /\ callsLessSteps' = IF pc = "completed" THEN callsLessSteps
                                                   ELSE callsLessSteps + 1
        /\ FeedResume
        /\ UNCHANGED queued
     \/ /\ call = "pending"
        /\ queued < MaxQueued
        /\ queued' = queued + 1
        /\ UNCHANGED <<pc, feedItems, cur, rtrI, rtrLen, visitDetached, nWaits,
                       call, lastDone, stepsInCall, callsLessSteps, scrollVars,
                       fromQueue, lateCalls>>
  /\ UNCHANGED <<variant, status, reactKey, gridShape, layout, marked, seenPins,
                 pinPhase, yieldCount, lateFound, lateScroll, mismatchSeen,
                 nErrors, linkVars, flagVars, streamVars, probeVars, domVars, helperVars>>

ReentryInit == FeedInit

ReentryNext ==
  \/ FeedCall
  \/ FeedServeQueued
  \/ FeedScrollDelayElapsed
  \/ UserDetailDelayElapsed
  \/ FeedLoadDelayElapsed
  \/ PageInsert
  \/ PageRelayout
  \/ PageAddAnnoying

SpecReentry == ReentryInit /\ [][ReentryNext]_vars

----------------------------------------------------------------------------
\* The observer of a MutationStream delivering a batch at a moment when the
\* generator is not suspended in `await this._getNext()`: before the first
\* pull, between a yield and the next pull, or after the consumer has left
\* the loop without a disconnect.

MaxDropped == 2

MutationLostIsBuffered ==
  /\ itr \in {"start", "yield", "done"}
  /\ ms.mo
  /\ nDropped < MaxDropped
  /\ nEmitted < MaxEmit
  /\ nDropped' = nDropped + 1
  /\ nEmitted' = nEmitted + 1
  /\ UNCHANGED <<linkVars, pageVars, genVars, callVars, obsVars, scrollVars,
                 flagVars, probeVars, domVars, reentryVars, openFor,
                 childWait, wbGlobals, scroller>>
  /\ UNCHANGED <<ms, itr, itrKind, checkTo, startPredicate, stopPredicate,
                 endedBy, nDisconnect, nPolls, waiterNulls>>

\* (ml, ob) => { if (this._resolve) { this._resolve(ml); } } where the stored
\* resolver is null or belongs to a promise that is settled already: the call
\* has no effect and ml is kept nowhere
MutationLost ==
  /\ itr \in {"start", "yield", "done"}
  /\ ms.mo
  /\ nDropped < MaxDropped
  /\ nDropped' = nDropped + 1
  /\ ms' = IF ms.resolve = "pending" THEN [ms EXCEPT !.resolve = "settled"]
                                     ELSE ms
  /\ UNCHANGED <<linkVars, pageVars, genVars, callVars, obsVars, scrollVars,
                 flagVars, probeVars, domVars, reentryVars, openFor,
                 childWait, wbGlobals, scroller>>
  /\ UNCHANGED <<itr, itrKind, checkTo, startPredicate, stopPredicate,
                 endedBy, nDisconnect, nEmitted, nPolls, waiterNulls>>

BatchesNext ==
  \/ StreamNext
  \/ MutationLost

SpecBatches == StreamInit /\ [][BatchesNext]_vars

----------------------------------------------------------------------------
\* The tweet traversal with its two predicate waits spelled out.
\* waitForPredicate(predicate) (facebookFeed.js 618-629) evaluates the
\* predicate in a requestAnimationFrame callback and, while it is false, asks
\* for the next frame; it has no other way to resolve.  The page decides
\* whether a click opens or closes the permalink overlay.

overlayRest == <<linkVars, pageVars, genVars, callVars, obsVars, scrollVars,
                 flagVars, streamVars, probeVars, domVars, reentryVars,
                 nDropped, childWait, wbGlobals, scroller>>

\* the click on the tweet takes effect: document.baseURI ends with its
\* permalink path
PageOpensOverlay ==
  /\ variant = "tweets"
  /\ pc = "openWait"
  /\ openFor # cur
  /\ openFor' = cur
  /\ UNCHANGED overlayRest

\* the click on the dismiss element takes effect: document.baseURI is the
\* timeline's again
PageClosesOverlay ==
  /\ variant = "tweets"
  /\ pc = "closeWait"
  /\ openFor # 0
  /\ openFor' = 0
  /\ UNCHANGED overlayRest

\* a frame of the wait of openFullTweet: cb() with
\* document.baseURI.endsWith(permalinkPath), else requestAnimationFrame(cb)
TweetsOpenFrame ==
  IF openFor = cur
    THEN TweetsOpenWaitElapsed
    ELSE /\ variant = "tweets"
         /\ pc = "openWait"
         /\ UNCHANGED vars

\* a frame of the wait of closeFullTweetOverlay: cb() with
\* document.baseURI === this._baseURI, else requestAnimationFrame(cb)
TweetsCloseFrame ==
  IF openFor = 0
    THEN TweetsCloseWaitElapsed
    ELSE /\ variant = "tweets"
         /\ pc = "closeWait"
         /\ UNCHANGED vars

OverlayNext ==
  \/ TweetsAdvance
  \/ TweetsScrollDelayElapsed
  \/ TweetsOpenFrame
  \/ TweetsThreadDelayElapsed
  \/ TweetsThreadLoadDelayElapsed
  \/ TweetsCloseFrame
  \/ TweetsLoadDelayElapsed
  \/ PageOpensOverlay
  \/ PageClosesOverlay
  \/ PageInsert
  \/ PageRemove

\* timers and animation frames keep firing; the page is free to react or not
SpecOverlay ==
  /\ TweetsInit
  /\ [][OverlayNext]_vars
  /\ WF_vars(TweetsScrollDelayElapsed)
  /\ WF_vars(TweetsOpenFrame)
  /\ WF_vars(TweetsThreadDelayElapsed)
  /\ WF_vars(TweetsThreadLoadDelayElapsed)
  /\ WF_vars(TweetsCloseFrame)
  /\ WF_vars(TweetsLoadDelayElapsed)

----------------------------------------------------------------------------
\* waitForAdditionalElemChildren(parentElement, currentChildCount, opts)
\* (facebookFeed.js 209-242, twitterHashTags.js 122-155) on a parent that the
\* page may detach, re-attach, grow and shrink at any time

DefaultMax == 6
MaxOptMax == 2

\* let max = 6; if (opts != null) { ... if (opts.max != null) max = opts.max; }
WaitMaxes == (0..MaxOptMax) \cup {DefaultMax}

waitPollOneTickLate(w) ==
  LET t == [w EXCEPT !.ticks = @ + 1] IN
    IF ~w.connected \/ w.more \/ w.n > w.max + 1
      THEN [t EXCEPT !.int = FALSE, !.resolved = @ + 1, !.phase = "resolved"]
      ELSE [t EXCEPT !.n = @ + 1]

\* the setInterval callback: three tests, each followed by clearInterval(int)
\* and resolve(); else n += 1
waitPoll(w) ==
  LET t == [w EXCEPT !.ticks = @ + 1] IN
    IF ~w.connected
      THEN [t EXCEPT !.int = FALSE, !.resolved = @ + 1, !.phase = "resolved"]
      ELSE IF w.more
        THEN [t EXCEPT !.int = FALSE, !.resolved = @ + 1, !.phase = "resolved"]
        ELSE IF w.n > w.max
          THEN [t EXCEPT !.int = FALSE, !.resolved = @ + 1, !.phase = "resolved"]
          ELSE [t EXCEPT !.n = @ + 1]

childWaitRest == <<linkVars, pageVars, genVars, callVars, obsVars, scrollVars,
                   flagVars, streamVars, probeVars, domVars, reentryVars,
                   nDropped, openFor, wbGlobals, scroller>>

\* a call: let n = 0; int = setInterval(..., pollRate), on the parent as it is
StartChildWait ==
  /\ childWait.phase # "polling"
  /\ \E max \in WaitMaxes, connected \in BOOLEAN, more \in BOOLEAN :
       childWait' = [phase |-> "polling", max |-> max, n |-> 0, ticks |-> 0,
                     int |-> TRUE, resolved |-> 0, connected |-> connected,
                     more |-> more]
  /\ UNCHANGED childWaitRest

\* the interval fires
ChildWaitTick ==
  /\ childWait.phase = "polling"
  /\ childWait.int
  /\ childWait' = waitPoll(childWait)
  /\ UNCHANGED childWaitRest

\* the page detaches the parent, or attaches it again
PageParentChanges ==
  /\ childWait.phase = "polling"
  /\ childWait' = [childWait EXCEPT !.connected = ~@]
  /\ UNCHANGED childWaitRest

\* the parent's children.length goes above currentChildCount, or back
PageChildrenChange ==
  /\ childWait.phase = "polling"
  /\ childWait' = [childWait EXCEPT !.more = ~@]
  /\ UNCHANGED childWaitRest

ChildWaitNext ==
  \/ StartChildWait
  \/ ChildWaitTick
  \/ PageParentChanges
  \/ PageChildrenChange

SpecChildWait == StreamInit /\ [][ChildWaitNext]_vars

----------------------------------------------------------------------------
\* The set-up of the behaviors that keep their outlinks in the global
\* window.$wbOutlinkSet$ (part_002:187-206, instagramUser.js:361-380), run
\* again and again on one page.  set is the identity of the Set the global
\* holds (0: undefined), made counts the Sets constructed on the page, getter
\* tells what window.$wbOutlinks$ reads; the variable outlinks holds the
\* entries of the Set of the behavior that ran last.

MaxRuns == 2

wbSetupWithoutClear(g, entries) ==
  LET g1 == IF g.set = 0
              THEN [g EXCEPT !.set = g.made + 1, !.made = @ + 1]
              ELSE g
      g2 == IF g1.getter = "undefined" THEN [g1 EXCEPT !.getter = "set"] ELSE g1
  IN [globals |-> [g2 EXCEPT !.runs = @ + 1],
      outlinks |-> IF g.set = 0 THEN {} ELSE entries]

\* if (typeof window.$wbOutlinkSet$ === 'undefined') {defineProperty ... new
\* Set()} else {window.$wbOutlinkSet$.clear()}; if (typeof window.$wbOutlinks$
\* === 'undefined') {defineProperty ... get() {return
\* Array.from(window.$wbOutlinkSet$)}}
wbSetup(g, entries) ==
  LET g1 == IF g.set = 0
              THEN [g EXCEPT !.set = g.made + 1, !.made = @ + 1]
              ELSE g
      g2 == IF g1.getter = "undefined" THEN [g1 EXCEPT !.getter = "set"] ELSE g1
  IN [globals |-> [g2 EXCEPT !.runs = @ + 1],
      outlinks |-> {}]

setupRest == <<pageVars, genVars, callVars, obsVars, scrollVars, flagVars,
               streamVars, probeVars, domVars, reentryVars, nDropped, openFor,
               childWait, scroller>>

\* the script of such a behavior is evaluated in the page
BehaviorSetup ==
  /\ wbGlobals.runs < MaxRuns
  /\ LET r == wbSetup(wbGlobals, outlinks) IN
       /\ wbGlobals' = r.globals
       /\ outlinks' = r.outlinks
  /\ urlParser' = "about:"
  /\ linkOp' = "setup"
  /\ before' = outlinks
  /\ UNCHANGED <<collector, anchors, setupRest>>

\* a behavior that keeps its Set to itself ran first on the page and defined
\* window.$wbOutlinks$ over that Set (part_001:87-93, part_000:142-146)
OtherBehaviorSetup ==
  /\ wbGlobals.getter = "undefined"
  /\ wbGlobals' = [wbGlobals EXCEPT !.getter = "other"]
  /\ linkOp' = "page"
  /\ before' = outlinks
  /\ UNCHANGED <<collector, outlinks, urlParser, anchors, setupRest>>

\* collectOutlinksFrom(queryFrom) of the behavior that was set up
SetupCollect ==
  /\ wbGlobals.runs > 0
  /\ CollectFrom

SetupInit ==
  /\ collector = "fn"
  /\ outlinks = {}
  /\ urlParser = "about:"
  /\ anchors = <<>>
  /\ linkOp = "none"
  /\ before = {}
  /\ EngineIdle

SetupNext ==
  \/ BehaviorSetup
  \/ OtherBehaviorSetup
  \/ SetupCollect
  \/ PageAddAnchor
  \/ PageDropAnchors

SpecSetup == SetupInit /\ [][SetupNext]_vars

----------------------------------------------------------------------------
\* The autoscroll behavior (part_000:148-186, part_001:95-133) on a page
\* without anchors whose heights change a bounded number of times.  Lengths
\* are in units of the 300 pixels of one scrollBy; the window is one unit
\* high; the window scrolls the document element, so scrollY ends at
\* documentElement.scrollHeight less the window's height whatever the height
\* of the body is.  since counts the 500 ms ticks since lastScrolled.

MaxHeight == 3
MaxChanges == 1
ScrollCountLimit == 50
ScrollingToTicks == 4

Heights == 1..MaxHeight

\* the largest scrollY the window can have
ScrollYEnd(docHeight) == Max2(docHeight - 1, 0)

\* the callback of scrollerInterval
scrollerTick(s) ==
  LET scrollPos == s.scrollY + 1
      measures  == s.scrollCount < ScrollCountLimit
      maxScroll == IF measures
                     THEN Max2(s.bodyScrollHeight, s.docScrollHeight)
                     ELSE s.maxScroll
      scrolls   == scrollPos < maxScroll
      since     == IF scrolls THEN 0
                     ELSE IF s.since > ScrollingToTicks THEN s.since
                     ELSE s.since + 1
      done      == since > ScrollingToTicks \/ scrollPos >= maxScroll
  IN [s EXCEPT !.scrollCount = IF measures THEN @ + 1 ELSE @,
               !.maxScroll = maxScroll,
               !.scrollY = IF scrolls
                             THEN IF @ + 1 <= ScrollYEnd(s.docScrollHeight)
                                    THEN @ + 1
                                    ELSE ScrollYEnd(s.docScrollHeight)
                             ELSE @,
               !.since = since,
               !.int = ~done,
               !.phase = IF done THEN "resolved" ELSE @,
               !.resolved = IF done THEN @ + 1 ELSE @]

autoRest == <<pageVars, genVars, callVars, obsVars, scrollVars, flagVars,
              streamVars, probeVars, domVars, reentryVars, nDropped, openFor,
              childWait, wbGlobals>>

\* domCompletePromise().then(...): the first measurement and setInterval
AutoScrollStart ==
  /\ scroller.phase = "none"
  /\ \E b \in Heights, d \in Heights :
       scroller' = [phase |-> "running", int |-> TRUE, scrollCount |-> 0,
                    maxScroll |-> Max2(b, d), scrollY |-> 0,
                    bodyScrollHeight |-> b, docScrollHeight |-> d,
                    since |-> 0, resolved |-> 0, changes |-> 0]
  /\ UNCHANGED <<linkVars, autoRest>>

\* a tick of the interval: scroll, OLC.collectFromDoc(), findAllMediaAndPlay(),
\* then the two tests that end the behavior
ScrollerIntervalTick ==
  /\ scroller.phase = "running"
  /\ scroller.int
  /\ scroller' = scrollerTick(scroller)
  /\ LET st == addOutLinks(collector, LinkState, anchors) IN
       /\ outlinks' = st.outlinks
       /\ urlParser' = st.proto
  /\ UNCHANGED <<collector, anchors, linkOp, before, autoRest>>

\* the page changes the height of its body or of its document element
PageHeightChanges ==
  /\ scroller.phase = "running"
  /\ scroller.changes < MaxChanges
  /\ \E b \in Heights, d \in Heights :
       /\ <<b, d>> # <<scroller.bodyScrollHeight, scroller.docScrollHeight>>
       /\ scroller' = [scroller EXCEPT
            !.bodyScrollHeight = b,
            !.docScrollHeight = d,
            !.scrollY = IF @ <= ScrollYEnd(d) THEN @ ELSE ScrollYEnd(d),
            !.changes = @ + 1]
  /\ UNCHANGED <<linkVars, autoRest>>

AutoInit ==
  /\ collector \in {"class", "local"}
  /\ outlinks = {}
  /\ urlParser = "about:"
  /\ anchors = <<>>
  /\ linkOp = "none"
  /\ before = {}
  /\ EngineIdle

AutoNext ==
  \/ AutoScrollStart
  \/ ScrollerIntervalTick
  \/ PageHeightChanges

\* the event loop runs the then-callback and every tick of a live interval
SpecAutoScroll ==
  /\ AutoInit
  /\ [][AutoNext]_vars
  /\ WF_vars(AutoScrollStart)
  /\ WF_vars(ScrollerIntervalTick)

----------------------------------------------------------------------------
\* Properties

IsFeed == variant \in {"newsFeed", "userFeed"}

Yielded == {n \in Nodes : yieldCount[n] >= 1}

\* C1: in a feed traversal no candidate node is yielded more than once, and a
\* node that carries the visited marker is neither returned by the candidate
\* query nor waiting in the pending list.
C1_MarkedNeverYieldedAgain ==
  IsFeed =>
    /\ \A n \in Nodes : yieldCount[n] <= 1
    /\ \A n \in marked :
         /\ n \notin SeqToSet(FeedQuery)
         /\ n \notin SeqToSet(feedItems)
    /\ Yielded = marked

\* every node was yielded exactly once, one of them found after a load wait,
\* and the traversal ended after a second, fruitless wait
C1_Witness ==
  /\ variant = "newsFeed"
  /\ \A n \in Nodes : yieldCount[n] = 1
  /\ nWaits = 2
  /\ pc = "completed"
  /\ lastDone = "true"

\* C2: a handler call yields at most one step; a call that resolved with
\* done=false yielded exactly one and left the generator suspended at a
\* yield; a call that resolved with done=true yielded none and found the
\* generator finished.
C2_OneStepPerCall ==
  /\ stepsInCall <= 1
  /\ (call = "idle" /\ lastDone = "false") =>
       /\ stepsInCall = 1
       /\ pc \in {"yieldItem", "yieldReplies", "yieldRtr1", "yieldRtr2"}
  /\ (call = "idle" /\ lastDone = "true") =>
       /\ stepsInCall = 0
       /\ pc = "completed"

\* a detail step of the user timeline was the one step of its call
C2_Witness ==
  /\ variant = "userFeed"
  /\ call = "idle"
  /\ lastDone = "false"
  /\ pc = "yieldRtr2"
  /\ stepsInCall = 1

\* C3: on a static page the feed traversal ends, and when it has ended the
\* calls made are the steps yielded plus one.
C3_StaticTermination ==
  /\ <>(lastDone = "true")
  /\ [](lastDone = "true" => callsLessSteps = 1)

\* a static run that yielded every node, waited once and ended
C3_Witness ==
  /\ lastDone = "true"
  /\ callsLessSteps = 1
  /\ nWaits = 1
  /\ \A n \in Nodes : yieldCount[n] = 1

\* C4 as claimed: when a feed traversal completes, the candidate query is
\* empty and canScrollMore() is false.
C4_DoneMeansBothExhausted ==
  [][(IsFeed /\ pc # "completed" /\ pc' = "completed")
       => (FeedQuery' = <<>> /\ ~canScrollMore')]_vars

\* C4 amended: when a feed traversal completes, the candidate query is empty
\* or canScrollMore() is false.
C4_DoneMeansOneExhausted ==
  [][(IsFeed /\ pc # "completed" /\ pc' = "completed")
       => (FeedQuery' = <<>> \/ ~canScrollMore')]_vars

\* the traversal has ended with unvisited candidates on a page that cannot
\* scroll further
C4_Witness ==
  /\ IsFeed
  /\ pc = "completed"
  /\ lastDone = "true"
  /\ feedItems # <<>>
  /\ SeqToSet(feedItems) = SeqToSet(FeedQuery)
  /\ ~canScrollMore

\* C5 as claimed: no step is yielded for a candidate that was removed from
\* the document before it was popped from the pending list.
C5_DetachedCandidateSkipped ==
  (IsFeed /\ pc = "yieldItem") => ~visitDetached

\* C6: when a lookup of the pin traversal meets a structural mismatch (no
\* grid item, a wrong container, a container or a child without an internal
\* key) the call in progress is rejected with an error, once, nothing is
\* yielded in that call and the generator is finished; no error arises
\* without a mismatch.
C6_MismatchPropagates ==
  variant = "pins" =>
    /\ mismatchSeen =>
         /\ nErrors = 1
         /\ pc = "completed"
         /\ call = "idle"
         /\ lastDone \in {"error", "true"}
         /\ stepsInCall = 0
    /\ nErrors >= 1 => mismatchSeen

\* a pin was yielded, then a re-query met a child without an internal key
C6_Witness ==
  /\ variant = "pins"
  /\ mismatchSeen
  /\ lastDone = "error"
  /\ Yielded # {}

\* C7 as claimed: the candidates found by the re-query after the first load
\* wait are all yielded before the traversal ends.
C7_LateItemsAllYielded ==
  (IsFeed /\ nWaits = 1 /\ lateFound # {} /\ pc = "completed")
    => lateFound \subseteq Yielded

\* C7 amended: the candidates found by the re-query after a load wait are
\* all visited before the next re-query when canScrollMore() was true at
\* that re-query; when it was false the traversal ends and none is yielded.
C7_LateItemsYieldedIfScrollable ==
  (IsFeed /\ lateFound # {}) =>
    IF lateScroll
      THEN /\ \A n \in lateFound :
                n \in SeqToSet(feedItems) \/ n = cur \/ n \in Yielded
           /\ pc \in {"loadDelay", "completed"} => lateFound \subseteq Yielded
      ELSE /\ pc = "completed"
           /\ lateFound \cap Yielded = {}

\* one node present at load was yielded, the engine waited once, and the
\* node inserted during the wait was yielded too
C7_Witness ==
  /\ variant = "newsFeed"
  /\ nWaits = 1
  /\ lateScroll
  /\ Cardinality(lateFound) = 1
  /\ \A n \in Nodes : yieldCount[n] = 1
  /\ pc = "yieldItem"

\* what the claim calls accepted: trimmed, non-empty, no ignore prefix,
\* parses, scheme http: or https:
Accepted(h) ==
  /\ Trim(h) # <<>>
  /\ \A i \in 1..Len(ignored) : ~StartsWith(Trim(h), ignored[i])
  /\ UrlParse(Trim(h)) \in {"http:", "https:"}

\* C8: collectFrom / addOutLinks ends with the set it started from united
\* with the trimmed accepted hrefs, and addOutlink adds its one href if it is
\* accepted.
C8_CollectAddsAcceptedOnly ==
  /\ linkOp = "collectFrom" =>
       outlinks = before \cup
         {Trim(anchors[i]) : i \in {j \in 1..Len(anchors) : Accepted(anchors[j])}}
  /\ linkOp = "addOutlink" =>
       outlinks = before \cup
         (IF Accepted(anchors[Len(anchors)])
            THEN {Trim(anchors[Len(anchors)])} ELSE {})

\* "https://a.com", "https://a.com", "javascript:void(0)", "not a url" into
\* an empty set
C8_Witness ==
  /\ linkOp = "collectFrom"
  /\ before = {}
  /\ anchors = <<HrefA, HrefA, HrefJ, HrefN>>
  /\ outlinks = {HrefA}

\* C9: every entry of the set is non-empty, trimmed, and parses as a URL
\* with scheme http: or https:.
C9_OnlyGoodSchemes ==
  \A e \in outlinks :
    /\ e # <<>>
    /\ Trim(e) = e
    /\ UrlParse(e) \in {"http:", "https:"}

\* the shared parser parsed "https://a.com" and then failed on "not a url"
C9_Witness ==
  /\ linkOp = "collectFrom"
  /\ anchors = <<HrefN, HrefA>>
  /\ urlParser = "https:"
  /\ outlinks = {HrefA}

\* C10: during a behavior run every step other than the driver's clear keeps
\* every entry of the set.
C10_AppendOnly ==
  [][DriverClearOutlinks \/ outlinks \subseteq outlinks']_vars

\* the set has grown to two entries over two visits
C10_Witness ==
  /\ IsFeed
  /\ Cardinality(outlinks) = 2
  /\ Cardinality(marked) = 2


\* C11 as claimed: reading window.$wbOutlinks$ gives the current entries, and
\* evaluating window.$wbOutlinkSet$.clear() succeeds and leaves the set empty,
\* so that the next read gives no entry.
C11_ReadCurrentAndClearEmpties ==
  /\ wbOutlinks(collector, outlinks).entries = outlinks
  /\ linkOp \in {"evalClear", "evalClearThrew"} =>
       /\ linkOp = "evalClear"
       /\ wbOutlinks(collector, outlinks).entries = {}


C13_NoOutlinksFreezesSet ==
  [][noOutlinks => outlinks' = outlinks]_vars


C15_StartFailureEmitsNothing ==
  /\ [](endedBy = "start" =>
          /\ itr = "done"
          /\ nEmitted = 0
          /\ nPolls = 0
          /\ ~checkTo
          /\ ~ms.mo)
  /\ [][(itr = "start" /\ itrKind = "predicate" /\ ~startPredicate)
          => itr' # "await"]_vars

\* the first pull found startPredicate() false while stopPredicate() is false
C15_Witness ==
  /\ endedBy = "start"
  /\ itrKind = "predicate"
  /\ ~stopPredicate
  /\ nDisconnect = 1

\* C16 as claimed: once a sequence has ended, on whatever way, the observer
\* is disconnected.
C16_EndedMeansDisconnected ==
  itr = "done" => ~ms.mo

\* C17: the polling interval is active only while a predicated stream waits;
\* none is active at a yield or after the end.
C17_NoIntervalOutsideWait ==
  checkTo => (itr = "await" /\ itrKind = "predicate")

\* a batch ended a wait during which stopPredicate was polled
C17_Witness ==
  /\ itr = "yield"
  /\ itrKind = "predicate"
  /\ nPolls >= 1
  /\ nEmitted = 1
  /\ ~checkTo

\* C18: a second disconnect() changes nothing that the first left (observer
\* released, loop flag false, no waiter stored), and the resolver of a
\* waiter is called with null at most once.
C18_DisconnectIdempotent ==
  /\ LET once  == DisconnectCall(StreamSt)
         twice == DisconnectCall(once)
     IN /\ once.ms = [mo |-> FALSE, loopStream |-> FALSE, resolve |-> "null"]
        /\ twice.ms = once.ms
        /\ twice.waiterNulls = once.waiterNulls
  /\ waiterNulls <= 1

\* disconnect() from outside ended a wait, and the generator called it again
C18_Witness ==
  /\ endedBy = "disconnect"
  /\ nDisconnect = 2
  /\ waiterNulls = 1
  /\ ms = [mo |-> FALSE, loopStream |-> FALSE, resolve |-> "null"]


\* C19: over the rendered-row queries of one pin traversal every row key is
\* selected at most once: the set of seen keys only grows, the rows a query
\* returns carry pairwise different keys, none of them seen before, and after
\* a query that did not throw every rendered child's key is seen; so a
\* recycled element with a new key is returned again and an element with a
\* seen key is not.
C19_RowKeySelectedOnce ==
  [][variant = "pins" =>
       /\ seenPins \subseteq seenPins'
       /\ seenPins' # seenPins =>
            LET rows == <<cur'>> \o feedItems' IN
              /\ {reactKey[rows[i]] : i \in 1..Len(rows)} = seenPins' \ seenPins
              /\ \A i, j \in 1..Len(rows) :
                   i # j => reactKey[rows[i]] # reactKey[rows[j]]
       /\ (pc' # pc /\ lastDone' # "error"
             /\ (pc = "start" \/ (pc = "yieldItem" /\ feedItems = <<>>))) =>
            \A n \in Nodes : Attached(n) => reactKey[n] \in seenPins']_vars

\* an element was yielded, recycled for a row with a new key and yielded
\* again, while another element that carries a seen key was never yielded
C19_Witness ==
  /\ variant = "pins"
  /\ \E n \in Nodes : yieldCount[n] = 2
  /\ \E n \in Nodes :
       Attached(n) /\ yieldCount[n] = 0 /\ reactKey[n] \in seenPins
  /\ Cardinality(seenPins) = 2
  /\ pc = "completed"
  /\ lastDone = "true"


FiveExtents ==
  {layout.bodyScrollHeight, layout.bodyOffsetHeight, layout.docClientHeight,
   layout.docScrollHeight, layout.docOffsetHeight}

TwoExtents == {layout.bodyScrollHeight, layout.docScrollHeight}

C21_ZeroOffsetScrollsIntoView ==
  [][lastScroll' # lastScroll =>
       LET n == lastScroll'.elem IN
       IF offsetTop[n] = 0
         THEN /\ lastScroll'.intoView
              /\ lastScroll'.block = "center"
              /\ ~lastScroll'.scrollTo
         ELSE /\ lastScroll'.scrollTo
              /\ lastScroll'.top = offsetTop[n]
              /\ ~lastScroll'.intoView]_vars

\* scrollIt ran on a node above its offset parent: window.scrollTo with a
\* negative top, while another node sits at offset 0
C21_Witness ==
  /\ lastScroll.fn = "scrollIt"
  /\ lastScroll.scrollTo
  /\ lastScroll.top = 0 - 1
  /\ \E n \in Nodes : offsetTop[n] = 0
  /\ scrollY = 0

\* C22: at most one element with id $wrStyle$ exists, and a style injection
\* that finds one leaves the document as it was, also when its text differs.
C22_OneStyleElement ==
  /\ Len(styles) <= 1
  /\ (lastStyle.op # "none" /\ lastStyle.before # <<>>) => styles = lastStyle.before

\* addBehaviorStyle was called with the debug text on a document that holds
\* the smooth-scroll style
C22_Witness ==
  /\ lastStyle.op = "addBehaviorStyle"
  /\ lastStyle.text = StyleDebug
  /\ lastStyle.before = <<StyleSmooth>>
  /\ styles = <<StyleSmooth>>


\* the generator is suspended at a yield
AtYield == pc \in {"yieldItem", "yieldReplies", "yieldRtr1", "yieldRtr2"}

\* C23: when the pending list is exhausted and re-queried, at once or after
\* the load wait, another visiting round starts if and only if that re-query
\* returned a candidate and canScrollMore() is true at that moment; otherwise
\* the traversal completes and the call in progress resolves done=true.
C23_ContinueIffFoundAndScrollable ==
  [][IsFeed =>
       /\ (pc = "loadDelay" /\ pc' # pc) =>
            IF FeedQuery # <<>> /\ canScrollMore
              THEN pc' = "scrollDelay" /\ cur' = Head(FeedQuery)
              ELSE pc' = "completed" /\ call' = "idle" /\ lastDone' = "true"
       /\ (AtYield /\ feedItems = <<>> /\ FeedQuery # <<>>
             /\ pc' \in {"scrollDelay", "loadDelay", "completed"}) =>
            IF canScrollMore
              THEN pc' = "scrollDelay" /\ cur' = Head(FeedQuery)
              ELSE pc' = "completed" /\ call' = "idle" /\ lastDone' = "true"]_vars

\* the re-query after a load wait found a candidate on a page that could not
\* scroll further: the traversal ended without yielding it
C23_Witness ==
  /\ IsFeed
  /\ nWaits = 1
  /\ lateFound # {}
  /\ ~lateScroll
  /\ pc = "completed"
  /\ lastDone = "true"
  /\ lateFound \cap Yielded = {}


\* the candidate query of the behavior that runs
Requery == IF variant = "sound" THEN SoundQuery ELSE FeedQuery

\* the generator is suspended at a yield of a step
AtStep == pc \in {"yieldItem", "yieldReplies", "yieldRtr1", "yieldRtr2",
                  "yieldNoTracks", "yieldTrack"}

\* C24: a load wait starts only when the pending list is empty and the
\* re-query made at that moment is empty too, and it is one wait; when the
\* list has run empty the re-query decides at once between the wait (empty)
\* and going on without a wait (candidates found); the end of a wait is
\* followed by one more re-query and the continue condition, never by
\* another wait.
C24_OneWaitOnlyAfterEmptyRequery ==
  [][/\ (pc # "loadDelay" /\ pc' = "loadDelay") =>
          /\ feedItems = <<>>
          /\ Requery = <<>>
          /\ nWaits' = nWaits + 1
     /\ (AtStep /\ feedItems = <<>>
           /\ pc' \in {"scrollDelay", "loadDelay", "completed"}) =>
          (pc' = "loadDelay" <=> Requery = <<>>)
     /\ (pc = "loadDelay" /\ pc' # pc) =>
          /\ pc' \in {"scrollDelay", "completed"}
          /\ nWaits' = nWaits
          /\ pc' = "scrollDelay" => cur' = Head(Requery)
          /\ Requery = <<>> => pc' = "completed"]_vars

\* the sound traversal ran out of items, waited once, and visits the item
\* that the re-query after the wait found
C24_Witness ==
  /\ variant = "sound"
  /\ nWaits = 1
  /\ cur \in lateFound
  /\ pc = "yieldItem"
  /\ Cardinality(marked) = 2


\* a sequence of nodes in document order
InDocOrder(q) == \A i, j \in 1..Len(q) : i < j => q[i] < q[j]

\* the candidate query of the behavior that runs
PendingQuery == IF variant = "timeline" THEN TimelineQuery ELSE Requery

\* C25: the pending list is a query snapshot in document order; a visit
\* starts by taking the head of the pending list, or the head of a fresh
\* snapshot when the list is empty; while nodes are pending the list only
\* loses its head, so no re-query puts a node ahead of them; and the step
\* yielded for a candidate is the step of the node popped last.
C25_DiscoveryOrder ==
  [][/\ InDocOrder(feedItems')
     /\ feedItems # <<>> =>
          \/ feedItems' = feedItems /\ cur' = cur
          \/ feedItems' = Tail(feedItems) /\ cur' = Head(feedItems)
     /\ (feedItems = <<>> /\ (cur' # cur \/ feedItems' # <<>>)) =>
          \/ <<cur'>> \o feedItems' = PendingQuery
          \/ cur' = cur /\ feedItems' = PendingQuery /\ pc' = "completed"
     /\ \A n \in Nodes : yieldCount'[n] # yieldCount[n] => n = cur']_vars

\* node 2 was visited while node 1 was absent; node 1, inserted later and
\* found by a re-query, was yielded after it
C25_Witness ==
  /\ variant = "timeline"
  /\ yieldCount = [n \in Nodes |-> 1]
  /\ cur = 1
  /\ nWaits = 1
  /\ pc = "yieldItem"


\* the detail sub-traversal of the candidate cur is going on
InDetail ==
  pc \in {"repliesDelay", "yieldReplies", "rtrDelay1", "yieldRtr1", "rtrDelay2",
          "yieldRtr2", "openWait", "yieldOverlay", "threadDelay", "yieldThread",
          "threadLoadDelay", "closeWait"}

C27_NoNewWaitAfterStop ==
  [][wrStop =>
       /\ pc' \in {"scrollDelay", "loadDelay"} =>
            (pc' = pc /\ cur' = cur /\ nWaits' = nWaits)
       /\ yieldCount' # yieldCount => pc = "scrollDelay"
       /\ call = "idle" =>
            (call' = "idle" /\ yieldCount' = yieldCount /\ marked' = marked
             /\ (pc' = pc \/ (pc' = "completed" /\ lastDone' = "true")))]_vars

\* the flag was set during the settle wait of a first candidate: its step was
\* yielded, and the next call popped the second candidate and returned
\* without visiting it
C27_Witness ==
  /\ variant = "slideFeed"
  /\ wrStop
  /\ pc = "completed"
  /\ lastDone = "true"
  /\ cur # 0
  /\ cur \notin marked
  /\ yieldCount[cur] = 0
  /\ \E n \in Nodes : yieldCount[n] = 1


\* C29: after a call of the handler was rejected with an error thrown in the
\* traversal, the generator stays finished: a later call resolves done=true,
\* no call is rejected again, and nothing is visited (no node is popped,
\* marked, scrolled to or yielded and no outlink is collected).
C29_FaultIsTerminal ==
  [][nErrors >= 1 =>
       /\ nErrors' = nErrors
       /\ pc' = "completed"
       /\ call' = "idle"
       /\ lastDone' \in {lastDone, "true"}
       /\ feedItems' = feedItems
       /\ cur' = cur
       /\ marked' = marked
       /\ yieldCount' = yieldCount
       /\ scrollY' = scrollY
       /\ outlinks' = outlinks]_vars

\* a Tweet constructor threw while a tweet was still pending, and a later
\* call has resolved done=true
C29_Witness ==
  /\ variant = "tweets"
  /\ nErrors = 1
  /\ lastDone = "true"
  /\ feedItems # <<>>
  /\ pc = "completed"


C30_QueuedCallsAreSerialized ==
  [][/\ queued' < queued =>
          (call = "idle" /\ lastDone \in {"false", "true"}
           /\ queued' = queued - 1)
     /\ stepsInCall' <= 1
     /\ \A n \in Nodes : yieldCount'[n] <= 1
     /\ (pc' = "scrollDelay" /\ (pc # "scrollDelay" \/ cur' # cur)) =>
          cur' \notin marked
     /\ marked \subseteq marked']_vars

\* the second of two candidates was yielded to a call that had waited in the
\* queue while the call that got the first was pending
C30_Witness ==
  /\ fromQueue
  /\ call = "idle"
  /\ lastDone = "false"
  /\ pc = "yieldItem"
  /\ yieldCount[cur] = 1
  /\ \E n \in Nodes : n # cur /\ yieldCount[n] = 1


\* C31: a MutationStream sequence emits a batch only in the step in which the
\* observer delivers it to a pending next-mutation wait; a batch delivered
\* while no wait is pending changes nothing in the stream, and a wait that
\* starts later starts pending, with nothing to emit.
C31_EmittedOnlyWhenDeliveredToPendingWait ==
  [][/\ nEmitted' > nEmitted =>
          (/\ itr = "await"
           /\ ms.resolve = "pending"
           /\ ms.mo
           /\ itr' = "yield"
           /\ nEmitted' = nEmitted + 1
           /\ nDropped' = nDropped)
     /\ nDropped' > nDropped =>
          (itr # "await" /\ UNCHANGED <<itr, ms, nEmitted, endedBy, checkTo>>)
     /\ (itr # "await" /\ itr' = "await") =>
          (ms'.resolve = "pending" /\ nEmitted' = nEmitted)]_vars

\* a stream that lost a batch between two waits and emitted two others
C31_Witness ==
  /\ nDropped >= 1
  /\ nEmitted = 2
  /\ itr = "yield"
  /\ ms.resolve = "settled"


\* C32: with one consumer a MutationStream never has a pending next-mutation
\* waiter outside the one wait its generator is suspended in: a new waiter is
\* made only when the stored one is settled or absent, and whichever way a
\* wait or the stream ends (stopPredicate, a batch, disconnect()) no waiter
\* stays pending.
C32_AtMostOnePendingWaiter ==
  [][/\ ms'.resolve = "pending" => (itr' = "await" /\ endedBy' = "none")
     /\ (itr # "await" /\ itr' = "await") => ms.resolve # "pending"
     /\ (itr = "await" /\ itr' # "await") => ms'.resolve # "pending"]_vars

\* a wait was ended by stopPredicate: the waiter it left pending was resolved
\* with null by the disconnect() that ends the generator
C32_Witness ==
  /\ itrKind = "predicate"
  /\ endedBy = "stop"
  /\ itr = "done"
  /\ ms.resolve = "null"
  /\ waiterNulls = 1


\* C33: every call of the handler of the tweet traversal eventually resolves
\* when timers and animation frames keep firing, also when the page never
\* reacts to a click.
C33_EveryCallResolves ==
  (call = "pending") ~> (call = "idle")


\* C34: a poll tick of waitForAdditionalElemChildren resolves the promise
\* exactly when the parent is not connected, or has more children than
\* currentChildCount, or the poll counter is above max; the tick that resolves
\* clears the interval, so the promise is resolved once; and no call sees more
\* than max + 2 ticks.
C34_ResolvesAtFirstTickWithinMaxPlusTwo ==
  [][childWait.phase # "none" =>
       /\ childWait'.ticks = childWait.ticks + 1 =>
            /\ childWait.int
            /\ childWait.resolved = 0
            /\ (childWait'.resolved = 1) <=>
                 (~childWait.connected \/ childWait.more
                  \/ childWait.n > childWait.max)
            /\ childWait'.int <=> childWait'.resolved = 0
       /\ childWait'.resolved <= 1
       /\ childWait'.ticks <= childWait'.max + 2]_vars

\* a call with the default max on a parent that stayed connected and gained
\* no child was resolved by its eighth tick
C34_Witness ==
  /\ childWait.phase = "resolved"
  /\ childWait.max = DefaultMax
  /\ childWait.ticks = 8
  /\ childWait.resolved = 1
  /\ ~childWait.int
  /\ childWait.connected
  /\ ~childWait.more


\* the candidates the news feed generator still holds: the item it is
\* scrolling to and the rest of the list of its last query
FeedCandidates ==
  SeqToSet(feedItems) \cup (IF pc = "scrollDelay" THEN {cur} ELSE {})

\* C35: in the news feed a node enters the candidate list only at a step that
\* finds its offsetTop non-zero; a node outside the list is neither marked nor
\* yielded by the step; and a step that enters nodes into the list (a query
\* with a result) enters every attached unmarked node whose offsetTop is
\* non-zero, also one that earlier queries left out while it was hidden.
C35_HiddenAtQueryIsLeftForLater ==
  [][variant = "newsFeed" =>
       LET new == {n \in Nodes : n \in FeedCandidates' /\ n \notin FeedCandidates}
       IN /\ \A n \in new : ~OffsetTopIsZero(n)
          /\ \A n \in Nodes : n \notin FeedCandidates =>
               /\ n \in marked' => n \in marked
               /\ yieldCount'[n] = yieldCount[n]
          /\ new # {} =>
               \A n \in Nodes :
                 (Attached(n) /\ ~OffsetTopIsZero(n) /\ n \notin marked)
                   => n \in FeedCandidates']_vars

\* the re-query after a load wait left out a hidden feed item and returned the
\* shown item behind it
C35_Witness ==
  /\ variant = "newsFeed"
  /\ pc = "scrollDelay"
  /\ cur \in lateFound
  /\ \E n \in Nodes :
       /\ n < cur
       /\ status[n] = "hidden"
       /\ n \notin lateFound
       /\ n \notin marked
       /\ yieldCount[n] = 0


\* C36: a set-up that finds window.$wbOutlinkSet$ defined keeps that Set,
\* constructs no other and leaves it empty, and a window.$wbOutlinks$ that
\* read the Set before still reads it; every set-up leaves the behavior with
\* an empty Set, and a page never sees a second Set constructed.
C36_SetupReusesAndClearsTheSet ==
  [][/\ wbGlobals'.runs = wbGlobals.runs + 1 =>
          /\ outlinks' = {}
          /\ wbGlobals'.set # 0
          /\ wbGlobals.set # 0 =>
               /\ wbGlobals'.set = wbGlobals.set
               /\ wbGlobals'.made = wbGlobals.made
               /\ wbGlobals.getter = "set" => wbGlobals'.getter = "set"
     /\ wbGlobals'.made <= 1]_vars

\* the second set-up on a page found the Set of the first with entries and
\* emptied it
C36_Witness ==
  /\ wbGlobals.runs = 2
  /\ wbGlobals.set = 1
  /\ wbGlobals.made = 1
  /\ wbGlobals.getter = "set"
  /\ linkOp = "setup"
  /\ before # {}
  /\ outlinks = {}


\* test.startsWith(p) for some p of the ignore list
MatchesIgnored(test) == \E i \in 1..Len(ignored) : StartsWith(test, ignored[i])

\* C37: the shared URL parser is assigned only strings that match no ignore
\* prefix: the protocol it holds is the one it was constructed with or the
\* protocol of a collected href that starts with none of the prefixes.
C37_PrefixListBeforeParser ==
  urlParser \in {"about:"} \cup
    {UrlParse(Trim(h)) : h \in {x \in HrefPool : ~MatchesIgnored(Trim(x))}}


\* C38: once the autoscroll behavior runs and the page's heights have stopped
\* changing (they change at most MaxChanges times), the returned promise is
\* eventually resolved.
C38_AutoScrollEventuallyResolves ==
  (scroller.phase = "running") ~> (scroller.phase = "resolved")

====
